---- MODULE Spec2Model ----
(***************************************************************************)
(* Model of the streaming generation controller (ChatEngine) of            *)
(* src/llm/loader.js, of the vector index (VectorStore in                  *)
(* src/embeddings/store.js, Embedder in src/embeddings/embedder.js) and of *)
(* the context assembler (RAGPipeline in src/unnamed/part_001).            *)
(*                                                                         *)
(* One ChatEngine instance is shared by all generateStream calls.  Every   *)
(* call is a session s with its own closure (generatedText, timeoutId and  *)
(* the callbacks), while isGenerating, abortController and                 *)
(* ownAbortController are fields of the shared instance.  The model call   *)
(* (await pipeline(...)) is asynchronous: between its start and its return *)
(* the event loop runs token callbacks, timers, stop() and further         *)
(* generateStream calls in any order.                                      *)
(*                                                                         *)
(* Text is a sequence of characters over a small alphabet; the default     *)
(* stop markers are abstracted to the one-character marker "x".  Callers   *)
(* are taken to supply onToken, onDone and onError.                        *)
(*                                                                         *)
(* The vector index keeps its records in four object stores; every method  *)
(* is a sequence of awaited storage requests, one step each.  Spec is the  *)
(* controller, SpecTrim the stop-sequence functions, SpecStore the index,  *)
(* SpecRank the ranking of one search, SpecChunk one call of chunkText and *)
(* SpecContext one call of retrieveContext.                                *)
(***************************************************************************)
EXTENDS Integers, Sequences, FiniteSets, TLC

\* ------------------------------------------------------------------ bounds
MaxSessions == 2          \* generateStream calls in one behaviour
MaxFragments == 2         \* fragments the pending model calls have had processed
MaxTextLen == 3           \* length of the texts given to trimStopSequence
MaxStopLen == 2           \* length of one stop sequence
MaxStops == 2             \* stop sequences in one list

maxLength == 1            \* params.maxLength (loader.js:423), in characters

MaxDocs == 2              \* documents ingested in one behaviour
MaxChunks == 2            \* chunks the chunker makes of one document
MaxFailures == 1          \* failed storage / embedding calls in one behaviour
MaxCandidates == 3        \* stored vectors scanned by one ranked search
MaxTopK == 3              \* options.topK of a ranked search
MaxDocLen == 9            \* characters of a text given to chunkText
MaxChunkSize == 4         \* chunkSize and overlap given to chunkText
MaxBudget == 4            \* options.maxContextTokens of retrieveContext
MaxTurns == 3             \* sendMessage calls of one chat session
MaxAudioChunks == 3       \* audio chunks one player is given
MaxSources == 3           \* buffer sources one player creates

Sessions == 1..MaxSessions
None == 0

VARIABLES
    pipelineLoaded,       \* modelLoader.pipelines.textGeneration # null
    isGenerating,         \* this.isGenerating
    abortController,      \* this.abortController: None, or s = the object made at the start of s
    ownAbortController,   \* this.ownAbortController
    stopSequences,        \* this.stopSequences
    nextSession,          \* the next generateStream call
    pc,                   \* per session: position of the generateStream call
    external,             \* per session: the caller supplied options.signal
    aborted,              \* per session: signal.aborted of the session's signal
    abortedBy,            \* per session: who triggered the signal (history)
    generatedText,        \* per session: closure variable generatedText
    tokenCount,           \* per session: closure variable tokenCount
    timer,                \* per session: state of the setTimeout timer
    nToken,               \* per session: onToken invocations
    nDone,                \* per session: onDone invocations
    nError,               \* per session: onError invocations
    lastDone,             \* per session: payload of the last onDone
    lastError,            \* per session: argument of the last onError
    sessionGenerating,    \* per session: started, and neither stopped nor ended since (history)
    userStopped,          \* per owned session: stop() was called while it was Generating (history)
    earlyStopped,         \* per session: its callback ended it by stop sequence / length (history)
    timedOut,             \* per session: its timer reported the timeout (history)
    outcome,              \* per session: how the model call ended (history)
    trimText,             \* the accumulated text of a stop-sequence check
    trimOut,              \* the text after trimming
    trimPc                \* "idle" / "done"

ctrlVars == <<isGenerating, abortController, ownAbortController>>
signalVars == <<external, aborted, abortedBy>>
callbackVars == <<nToken, nDone, nError, lastDone, lastError>>
historyVars == <<sessionGenerating, userStopped, earlyStopped, timedOut, outcome>>
sessionVars == <<nextSession, pc, generatedText, tokenCount, timer>>
trimVars == <<trimText, trimOut, trimPc>>

\* The vector index (src/embeddings/store.js) and the embedder
\* (src/embeddings/embedder.js).
VARIABLES
    documents,            \* keys of the records in the 'documents' object store
    chunks,               \* 'chunks' object store: chunk id -> [docId]
    vectors,              \* 'vectors' object store: chunk id -> stored vector
    config,               \* the 'config' record of the 'metadata' object store
    lastDocId,            \* key generator of 'documents' (autoIncrement)
    lastChunkId,          \* key generator of 'chunks' (autoIncrement)
    embedderModel,        \* embedder.modelId: the embedding model in use
    writer,               \* the addDocument / deleteDocument / compact call in progress
    search,               \* the queryVector call in progress
    owner,                \* chunk id -> document it was made for (history)
    deletedDocs,          \* documents whose deleteDocument has returned (history)
    failedDeletes,        \* documents whose deleteDocument has thrown (history)
    failures,             \* failed storage / embedding calls so far
    rankIn,               \* the arguments of a ranked search on its own
    rankOut,              \* its result list
    rankPc                \* "idle" / "returned" / "threw"

\* The chunker (VectorStore.chunkText) and the context assembler
\* (RAGPipeline in src/unnamed/part_001), each as one call.
VARIABLES
    chunkIn,              \* the arguments of a chunkText call
    chunkOut,             \* the chunks it returns
    chunkPc,              \* "idle" / "returned"
    ctxIn,                \* the index, the query and the options of a retrieveContext call
    ctxOut,               \* what it returns
    ctxPc                 \* "idle" / "returned" / "threw"

\* The chat view (ChatUI in src/ui/chat-ui.js).
VARIABLES
    chatStore,            \* the messages saved for the current session, by timestamp
    uiIsGenerating,       \* ChatUI.isGenerating
    messages,             \* the message list handed to chatEngine.generateStream
    sent                  \* sendMessage calls so far; the current user message (history)

uiVars == <<chatStore, uiIsGenerating, messages, sent>>

\* The audio player of one message (AudioPlayer) and its user (TTSUI).
VARIABLES
    player,               \* the AudioPlayer's fields, its buffer sources and decodes
    feed,                 \* where the caller feeding the player with chunks is
    activePlayers         \* whether TTSUI.activePlayers holds the player

audioVars == <<player, feed, activePlayers>>
frontVars == <<uiVars, audioVars>>
chunkerVars == <<chunkIn, chunkOut, chunkPc>>
contextVars == <<ctxIn, ctxOut, ctxPc>>
textVars == <<chunkerVars, contextVars, frontVars>>

storeVars == <<documents, chunks, vectors, config, lastDocId, lastChunkId>>
storeHistoryVars == <<owner, deletedDocs, failedDeletes, failures>>
rankVars == <<rankIn, rankOut, rankPc>>
indexVars == <<storeVars, embedderModel, writer, search, storeHistoryVars, rankVars>>
ragVars == <<indexVars, textVars>>
chatVars == <<pipelineLoaded, ctrlVars, stopSequences, signalVars, callbackVars,
              historyVars, sessionVars, trimVars>>

vars == <<pipelineLoaded, ctrlVars, stopSequences, signalVars, callbackVars,
          historyVars, sessionVars, trimVars, ragVars>>

\* ------------------------------------------------------------ text helpers
Chars == {"a", "x", "y"}

\* all sequences over S of length lo..hi
SeqsOf(S, lo, hi) == UNION {[1..n -> S] : n \in lo..hi}

\* String.prototype.indexOf: 0-based index of the first occurrence, -1 if none
indexOf(text, seq) ==
    LET hits == {i \in 0..(Len(text) - Len(seq)) :
                    SubSeq(text, i + 1, i + Len(seq)) = seq}
    IN IF hits = {} THEN -1
       ELSE CHOOSE i \in hits : \A j \in hits : i <= j

\* String.prototype.includes
includes(text, seq) == indexOf(text, seq) # -1

\* String.prototype.substring(0, index)
substring0(text, index) == SubSeq(text, 1, index)

\* ChatEngine.shouldStop with the list as an argument
shouldStopWith(stops, text) ==
    \E k \in 1..Len(stops) : includes(text, stops[k])

\* ChatEngine.trimStopSequence with the list as an argument: the for-of loop
\* returns at the first list element that occurs in the text
trimStopSequenceWith(stops, text) ==
    LET found == {k \in 1..Len(stops) : indexOf(text, stops[k]) # -1}
    IN IF found = {} THEN text
       ELSE LET k == CHOOSE k \in found : \A m \in found : k <= m
            IN substring0(text, indexOf(text, stops[k]))

shouldStop(text) == shouldStopWith(stopSequences, text)
trimStopSequence(text) == trimStopSequenceWith(stopSequences, text)

\* ------------------------------------------------------------------- Init
DefaultStopSequences == << <<"x">> >>
Fragments == {<<"a">>, <<"x">>}

NoDone == [called |-> FALSE, aborted |-> FALSE, text |-> "none", tokens |-> 0]

InitSessions ==
    /\ nextSession = 1
    /\ pc = [s \in Sessions |-> "idle"]
    /\ external = [s \in Sessions |-> FALSE]
    /\ aborted = [s \in Sessions |-> FALSE]
    /\ abortedBy = [s \in Sessions |-> "none"]
    /\ generatedText = [s \in Sessions |-> <<>>]
    /\ tokenCount = [s \in Sessions |-> 0]
    /\ timer = [s \in Sessions |-> "none"]
    /\ nToken = [s \in Sessions |-> 0]
    /\ nDone = [s \in Sessions |-> 0]
    /\ nError = [s \in Sessions |-> 0]
    /\ lastDone = [s \in Sessions |-> NoDone]
    /\ lastError = [s \in Sessions |-> "none"]
    /\ sessionGenerating = [s \in Sessions |-> FALSE]
    /\ userStopped = [s \in Sessions |-> FALSE]
    /\ earlyStopped = [s \in Sessions |-> FALSE]
    /\ timedOut = [s \in Sessions |-> FALSE]
    /\ outcome = [s \in Sessions |-> "none"]

InitCtrl ==
    /\ isGenerating = FALSE
    /\ abortController = None
    /\ ownAbortController = FALSE

InitTrim ==
    /\ trimText = <<>>
    /\ trimOut = <<>>
    /\ trimPc = "idle"

\* no writer call / no search in progress
IdleWriter == [op |-> "none", pc |-> "idle", docId |-> 0, chunkIds |-> << >>,
               i |-> 0, n |-> 0, embedFailed |-> FALSE,
               result |-> [count |-> 0, embeddingCount |-> 0, success |-> FALSE]]
IdleSearch == [pc |-> "idle", query |-> << >>, threshold |-> 0, allVectors |-> << >>,
               i |-> 0, docId |-> 0, score |-> 0, vectorsWithScores |-> << >>,
               results |-> << >>, error |-> "none", deletedBefore |-> {}]
NoRankIn == [query |-> << >>, allVectors |-> << >>, topK |-> 0, threshold |-> 0,
             useMMR |-> FALSE, mmrLambda |-> 0]

\* VectorStore.initialize on a fresh database
InitStore ==
    /\ documents = {}
    /\ chunks = << >>
    /\ vectors = << >>
    /\ config = [dimensions |-> 0, totalDocuments |-> 0, totalChunks |-> 0]
    /\ lastDocId = 0
    /\ lastChunkId = 0
    /\ embedderModel = 1
    /\ writer = IdleWriter
    /\ search = IdleSearch
    /\ owner = << >>
    /\ deletedDocs = {}
    /\ failedDeletes = {}
    /\ failures = 0

InitRank ==
    /\ rankIn = NoRankIn
    /\ rankOut = << >>
    /\ rankPc = "idle"

NoChunkIn == [text |-> << >>, chunkSize |-> 0, overlap |-> 0]
NoContextIn == [query |-> << >>, allVectors |-> << >>, chunks |-> << >>, topK |-> 0,
                threshold |-> 0, useMMR |-> FALSE, mmrLambda |-> 0, maxContextTokens |-> 0,
                includeMetadata |-> FALSE]
NoContext == [contextText |-> << >>, sources |-> << >>, tokensUsed |-> 0,
              chunksUsed |-> 0, searchResults |-> << >>, contextChunks |-> << >>]

InitUI ==
    /\ chatStore = << >>
    /\ uiIsGenerating = FALSE
    /\ messages = << >>
    /\ sent = 0

\* new AudioPlayer(); sources: the buffer sources created so far, by creation
\* order; decoding: the playNext calls waiting for their decode; onEndCalls:
\* the calls of onEndCallback, modulo 2
NewPlayer ==
    [audioQueue |-> << >>, isPlaying |-> FALSE, isPaused |-> FALSE,
     isStreaming |-> FALSE, currentSource |-> 0, currentBuffer |-> 0,
     totalDuration |-> 0, sources |-> << >>, decoding |-> {}, onEndCalls |-> 0]

InitAudio ==
    /\ player = NewPlayer
    /\ feed = [pc |-> "none", awaiting |-> 0, produced |-> 0]
    /\ activePlayers = FALSE

InitText ==
    /\ InitUI
    /\ InitAudio
    /\ chunkIn = NoChunkIn
    /\ chunkOut = << >>
    /\ chunkPc = "idle"
    /\ ctxIn = NoContextIn
    /\ ctxOut = NoContext
    /\ ctxPc = "idle"

Init ==
    /\ pipelineLoaded = FALSE
    /\ InitCtrl
    /\ stopSequences = DefaultStopSequences
    /\ InitSessions
    /\ InitTrim
    /\ InitStore
    /\ InitRank
    /\ InitText

\* ---------------------------------------------------------------- actions
\* A call that has settled (returned, thrown or been rejected) is observed in
\* the state right after it; its closure is then unreachable and Forget drops
\* its record before anything else happens.
Settled(s) == pc[s] \in {"resolved", "rejected", "busy", "noPipeline", "setupThrew"}
NoneSettled == \A s \in Sessions : ~Settled(s)

\* ModelLoader.loadLLM: the text generation pipeline becomes available
LoadLLM ==
    /\ NoneSettled
    /\ ~pipelineLoaded
    /\ pipelineLoaded' = TRUE
    /\ UNCHANGED <<ragVars, ctrlVars, stopSequences, signalVars, callbackVars,
                   historyVars, sessionVars, trimVars>>

\* typeof this.abortController.abort === 'function': a real AbortController,
\* not the { signal } wrapper of a caller's signal
hasAbortMethod(ac) == ac # None /\ ~external[ac]

\* this.abortController?.signal?.aborted
signalAborted == abortController # None /\ aborted[abortController]

\* stop() as it would be without the ownership test: it triggers whatever
\* signal the controller holds
stopTriggers_anySignal ==
    /\ abortController # None
    /\ ~aborted[abortController]

\* ChatEngine.stop(): the condition under which it calls abort()
stopTriggers ==
    /\ ownAbortController
    /\ abortController # None
    /\ hasAbortMethod(abortController)
    /\ ~aborted[abortController]

\* ChatEngine.stop() as a state change; whatever session was Generating is
\* no longer (history)
stop ==
    /\ aborted' = IF stopTriggers
                  THEN [aborted EXCEPT ![abortController] = TRUE]
                  ELSE aborted
    /\ abortedBy' = IF stopTriggers
                    THEN [abortedBy EXCEPT ![abortController] = "controller"]
                    ELSE abortedBy
    /\ isGenerating' = FALSE
    /\ ownAbortController' = FALSE
    /\ sessionGenerating' = [s \in Sessions |-> FALSE]
    /\ UNCHANGED <<abortController, external>>

\* generateStream as it would be if the controller fields were assigned
\* before the busy test
GenerateStream_assignsFirst(ext, malformed) ==
    LET s == nextSession IN
    /\ NoneSettled
    /\ nextSession <= MaxSessions
    /\ nextSession' = nextSession + 1
    /\ ownAbortController' = ~ext
    /\ abortController' = s
    /\ external' = [external EXCEPT ![s] = ext]
    /\ IF isGenerating
       THEN /\ pc' = [pc EXCEPT ![s] = "busy"]
            /\ UNCHANGED <<isGenerating, sessionGenerating, timer>>
       ELSE IF ~pipelineLoaded
       THEN /\ pc' = [pc EXCEPT ![s] = "noPipeline"]
            /\ UNCHANGED <<isGenerating, sessionGenerating, timer>>
       ELSE /\ isGenerating' = TRUE
            /\ IF malformed
               THEN /\ pc' = [pc EXCEPT ![s] = "setupThrew"]
                    /\ UNCHANGED <<sessionGenerating, timer>>
               ELSE /\ sessionGenerating' = [sessionGenerating EXCEPT ![s] = TRUE]
                    /\ timer' = [timer EXCEPT ![s] = "pending"]
                    /\ pc' = [pc EXCEPT ![s] = "running"]
    /\ UNCHANGED <<pipelineLoaded, ragVars, stopSequences, aborted, abortedBy, callbackVars,
                   userStopped, earlyStopped, timedOut, outcome,
                   generatedText, tokenCount, trimVars>>

\* generateStream up to the await of the model call.  malformed: the message
\* list makes formatMessages throw (an element that is null or undefined),
\* which happens after the controller fields are assigned and outside the try
GenerateStream(ext, malformed) ==
    LET s == nextSession IN
    /\ NoneSettled
    /\ nextSession <= MaxSessions
    /\ nextSession' = nextSession + 1
    /\ IF isGenerating
       THEN \* throw new Error('Generation already in progress')
            /\ pc' = [pc EXCEPT ![s] = "busy"]
            /\ UNCHANGED <<ctrlVars, external, sessionGenerating, timer>>
       ELSE IF ~pipelineLoaded
       THEN \* throw new Error('Text generation pipeline not loaded')
            /\ pc' = [pc EXCEPT ![s] = "noPipeline"]
            /\ UNCHANGED <<ctrlVars, external, sessionGenerating, timer>>
       ELSE /\ isGenerating' = TRUE
            /\ ownAbortController' = ~ext
            /\ abortController' = s
            /\ external' = [external EXCEPT ![s] = ext]
            /\ IF malformed
               THEN \* this.formatMessages(messages, systemPrompt) throws
                    /\ pc' = [pc EXCEPT ![s] = "setupThrew"]
                    /\ UNCHANGED <<sessionGenerating, timer>>
               ELSE /\ sessionGenerating' = [sessionGenerating EXCEPT ![s] = TRUE]
                    /\ timer' = [timer EXCEPT ![s] = "pending"]
                    /\ pc' = [pc EXCEPT ![s] = "running"]
    /\ UNCHANGED <<pipelineLoaded, ragVars, stopSequences, aborted, abortedBy, callbackVars,
                   userStopped, earlyStopped, timedOut, outcome,
                   generatedText, tokenCount, trimVars>>

\* the user (or any caller) calls chatEngine.stop()
Stop ==
    /\ NoneSettled
    /\ stop
    /\ userStopped' = [s \in Sessions |->
                           userStopped[s] \/ (sessionGenerating[s] /\ ~external[s])]
    /\ UNCHANGED <<pipelineLoaded, ragVars, stopSequences, callbackVars, earlyStopped,
                   timedOut, outcome, sessionVars, trimVars>>

\* the caller aborts the signal it supplied
CallerAbort(s) ==
    /\ NoneSettled
    /\ pc[s] = "running"
    /\ external[s]
    /\ ~aborted[s]
    /\ aborted' = [aborted EXCEPT ![s] = TRUE]
    /\ abortedBy' = [abortedBy EXCEPT ![s] = "caller"]
    /\ UNCHANGED <<pipelineLoaded, ragVars, ctrlVars, stopSequences, external, callbackVars,
                   historyVars, sessionVars, trimVars>>

\* the setTimeout callback of session s
Timeout(s) ==
    /\ NoneSettled
    /\ timer[s] = "pending"
    /\ timer' = [timer EXCEPT ![s] = "fired"]
    /\ IF isGenerating
       THEN /\ stop
            /\ nError' = [nError EXCEPT ![s] = @ + 1]
            /\ lastError' = [lastError EXCEPT ![s] = "timeout"]
            /\ timedOut' = [timedOut EXCEPT ![s] = TRUE]
       ELSE UNCHANGED <<ctrlVars, signalVars, nError, lastError, timedOut,
                        sessionGenerating>>
    /\ UNCHANGED <<pipelineLoaded, ragVars, stopSequences, nToken, nDone, lastDone,
                   userStopped, earlyStopped, outcome,
                   nextSession, pc, generatedText, tokenCount, trimVars>>

\* fragments processed by the callbacks of the calls not yet forgotten
RECURSIVE SumTo(_, _)
SumTo(f, n) == IF n = 0 THEN 0 ELSE f[n] + SumTo(f, n - 1)
TokensProcessed == SumTo(tokenCount, MaxSessions)

\* the streamer's callback_function of session s for one fragment
TokenCallback(s, text) ==
    /\ NoneSettled
    /\ pc[s] = "running"
    /\ TokensProcessed < MaxFragments
    /\ IF signalAborted
       THEN UNCHANGED <<ctrlVars, signalVars, generatedText, tokenCount, nToken,
                        earlyStopped, sessionGenerating>>
       ELSE LET appended == generatedText[s] \o text IN
            /\ tokenCount' = [tokenCount EXCEPT ![s] = @ + 1]
            /\ IF shouldStop(appended)
               THEN /\ generatedText' = [generatedText EXCEPT
                                            ![s] = trimStopSequence(appended)]
                    /\ stop
                    /\ earlyStopped' = [earlyStopped EXCEPT ![s] = TRUE]
                    /\ UNCHANGED nToken
               ELSE /\ generatedText' = [generatedText EXCEPT ![s] = appended]
                    /\ IF Len(appended) > maxLength
                       THEN /\ stop
                            /\ earlyStopped' = [earlyStopped EXCEPT ![s] = TRUE]
                            /\ UNCHANGED nToken
                       ELSE /\ nToken' = [nToken EXCEPT ![s] = @ + 1]
                            /\ UNCHANGED <<ctrlVars, signalVars, earlyStopped,
                                           sessionGenerating>>
    /\ UNCHANGED <<pipelineLoaded, ragVars, stopSequences, nDone, nError, lastDone,
                   lastError, userStopped, timedOut, outcome,
                   nextSession, pc, timer, trimVars>>

\* clearTimeout(timeoutId): a pending timer never fires
clearTimeout(s) == [timer EXCEPT ![s] = IF @ = "pending" THEN "cleared" ELSE @]

\* the cleanup as it would be if it only ran when no cancellation was seen
finally_unlessAborted ==
    IF signalAborted
    THEN UNCHANGED ctrlVars
    ELSE /\ isGenerating' = FALSE
         /\ abortController' = None
         /\ ownAbortController' = FALSE

\* the finally block
finally ==
    /\ isGenerating' = FALSE
    /\ abortController' = None
    /\ ownAbortController' = FALSE

\* await pipeline(...) returns: the code after the await, and finally
ModelReturn(s) ==
    /\ NoneSettled
    /\ pc[s] = "running"
    /\ timer' = clearTimeout(s)
    /\ nDone' = [nDone EXCEPT ![s] = @ + 1]
    /\ lastDone' = [lastDone EXCEPT
                       ![s] = [called |-> TRUE, aborted |-> FALSE, text |-> "final",
                               tokens |-> tokenCount[s]]]
    /\ pc' = [pc EXCEPT ![s] = "resolved"]
    /\ outcome' = [outcome EXCEPT ![s] = "returned"]
    /\ sessionGenerating' = [sessionGenerating EXCEPT ![s] = FALSE]
    /\ finally
    /\ UNCHANGED <<pipelineLoaded, ragVars, stopSequences, signalVars, nToken, nError,
                   lastError, userStopped, earlyStopped, timedOut,
                   nextSession, generatedText, tokenCount, trimVars>>

\* await pipeline(...) throws: the catch block, and finally
ModelThrow(s, isAbortError) ==
    /\ NoneSettled
    /\ pc[s] = "running"
    /\ timer' = clearTimeout(s)
    /\ IF isAbortError \/ signalAborted
       THEN /\ nDone' = [nDone EXCEPT ![s] = @ + 1]
            /\ lastDone' = [lastDone EXCEPT
                   ![s] = [called |-> TRUE, aborted |-> TRUE, text |-> "generatedText",
                           tokens |-> tokenCount[s]]]
            /\ pc' = [pc EXCEPT ![s] = "resolved"]
            /\ UNCHANGED <<nError, lastError>>
       ELSE /\ nError' = [nError EXCEPT ![s] = @ + 1]
            /\ lastError' = [lastError EXCEPT ![s] = "model"]
            /\ pc' = [pc EXCEPT ![s] = "rejected"]
            /\ UNCHANGED <<nDone, lastDone>>
    /\ outcome' = [outcome EXCEPT
                      ![s] = IF isAbortError THEN "threwAbortError" ELSE "threwError"]
    /\ sessionGenerating' = [sessionGenerating EXCEPT ![s] = FALSE]
    /\ finally
    /\ UNCHANGED <<pipelineLoaded, ragVars, stopSequences, signalVars, nToken,
                   userStopped, earlyStopped, timedOut,
                   nextSession, generatedText, tokenCount, trimVars>>

\* the settled call's closure and callbacks go out of scope, and so does its
\* signal unless the controller still holds it
Forget(s) ==
    /\ Settled(s)
    /\ pc' = [pc EXCEPT ![s] = "closed"]
    /\ IF abortController = s
       THEN UNCHANGED signalVars
       ELSE /\ external' = [external EXCEPT ![s] = FALSE]
            /\ aborted' = [aborted EXCEPT ![s] = FALSE]
            /\ abortedBy' = [abortedBy EXCEPT ![s] = "none"]
    /\ generatedText' = [generatedText EXCEPT ![s] = <<>>]
    /\ tokenCount' = [tokenCount EXCEPT ![s] = 0]
    /\ timer' = [timer EXCEPT ![s] = "none"]
    /\ nToken' = [nToken EXCEPT ![s] = 0]
    /\ nDone' = [nDone EXCEPT ![s] = 0]
    /\ nError' = [nError EXCEPT ![s] = 0]
    /\ lastDone' = [lastDone EXCEPT ![s] = NoDone]
    /\ lastError' = [lastError EXCEPT ![s] = "none"]
    /\ userStopped' = [userStopped EXCEPT ![s] = FALSE]
    /\ earlyStopped' = [earlyStopped EXCEPT ![s] = FALSE]
    /\ timedOut' = [timedOut EXCEPT ![s] = FALSE]
    /\ outcome' = [outcome EXCEPT ![s] = "none"]
    /\ UNCHANGED <<pipelineLoaded, ragVars, ctrlVars, stopSequences, sessionGenerating,
                   nextSession, trimVars>>

Next ==
    \/ LoadLLM
    \/ \E ext, malformed \in BOOLEAN : GenerateStream(ext, malformed)
    \/ Stop
    \/ \E s \in Sessions : CallerAbort(s)
    \/ \E s \in Sessions : Timeout(s)
    \/ \E s \in Sessions : \E text \in Fragments : TokenCallback(s, text)
    \/ \E s \in Sessions : ModelReturn(s)
    \/ \E s \in Sessions : \E isAbortError \in BOOLEAN : ModelThrow(s, isAbortError)
    \/ \E s \in Sessions : Forget(s)

Spec == Init /\ [][Next]_vars

\* ------------------------------------------- stop sequences, on their own
\* The stop-sequence list is configurable (setStopSequences, addStopSequence,
\* removeStopSequence) and a fragment is any text, so shouldStop and
\* trimStopSequence are exercised here on every short text and list.
StopSeqs == SeqsOf(Chars, 1, MaxStopLen)
Texts == SeqsOf(Chars, 0, MaxTextLen)

\* Array.prototype.includes on the list
listIncludes(list, seq) == \E k \in 1..Len(list) : list[k] = seq

\* Array.prototype.indexOf on the list, 0-based, -1 if absent
listIndexOf(list, seq) ==
    LET hits == {k \in 1..Len(list) : list[k] = seq}
    IN IF hits = {} THEN -1
       ELSE (CHOOSE k \in hits : \A m \in hits : k <= m) - 1

\* Array.prototype.splice(index, 1)
splice1(list, index) ==
    [k \in 1..(Len(list) - 1) |-> IF k <= index THEN list[k] ELSE list[k + 1]]

\* ChatEngine.addStopSequence
AddStopSequence(sequence) ==
    /\ Len(stopSequences) < MaxStops
    /\ stopSequences' = IF ~listIncludes(stopSequences, sequence)
                        THEN Append(stopSequences, sequence)
                        ELSE stopSequences
    /\ UNCHANGED <<pipelineLoaded, ragVars, ctrlVars, signalVars, callbackVars,
                   historyVars, sessionVars, trimVars>>

\* ChatEngine.removeStopSequence
RemoveStopSequence(sequence) ==
    /\ LET index == listIndexOf(stopSequences, sequence)
       IN stopSequences' = IF index > -1
                           THEN splice1(stopSequences, index)
                           ELSE stopSequences
    /\ UNCHANGED <<pipelineLoaded, ragVars, ctrlVars, signalVars, callbackVars,
                   historyVars, sessionVars, trimVars>>

\* the token callback's check of an accumulated text (loader.js:417-418):
\* if (this.shouldStop(generatedText)) generatedText = this.trimStopSequence(generatedText)
TrimAccumulated(text) ==
    /\ shouldStop(text)
    /\ trimText' = text
    /\ trimOut' = trimStopSequence(text)
    /\ trimPc' = "done"
    /\ UNCHANGED <<pipelineLoaded, ragVars, ctrlVars, stopSequences, signalVars,
                   callbackVars, historyVars, sessionVars>>

NextTrim ==
    \/ \E sequence \in StopSeqs : AddStopSequence(sequence)
    \/ \E sequence \in StopSeqs : RemoveStopSequence(sequence)
    \/ \E text \in Texts : TrimAccumulated(text)

SpecTrim == Init /\ [][NextTrim]_vars

\* ------------------------------------------------------------ the claims
Finished(s) == pc[s] \in {"resolved", "rejected"}

InFlight == {s \in Sessions : pc[s] = "running"}

\* C1: two model calls are never in flight together (a generateStream call
\* made while an earlier model call has not returned is rejected as busy).
C1_OneModelCallInFlight == Cardinality(InFlight) <= 1

\* C2: every session gets at most one terminal callback, onDone or onError,
\* and gets it at most once.
C2_SingleTerminalCallback ==
    \A s \in Sessions : nDone[s] + nError[s] <= 1

\* C3: an owned session on which stop() was called while it was Generating
\* ends by onDone with aborted: true and the partial text, whether the model
\* call returns or throws.
C3_StopEndsAborted ==
    \A s \in Sessions :
        (~external[s] /\ userStopped[s] /\ Finished(s))
            => /\ nDone[s] = 1
               /\ lastDone[s].aborted
               /\ lastDone[s].text = "generatedText"

\* C4: a caller-supplied signal is never triggered by the controller: when it
\* is aborted, the caller aborted it.
C4_ExternalSignalOnlyObserved ==
    \A s \in Sessions :
        external[s] => /\ abortedBy[s] # "controller"
                       /\ aborted[s] => abortedBy[s] = "caller"

\* C4 witness: stop() has acted (by the user, a stop sequence, the length
\* limit or the timeout) on a running session with a caller-supplied signal,
\* which the controller still holds.
C4_Witness ==
    \E s \in Sessions :
        /\ external[s] /\ pc[s] = "running" /\ ~aborted[s]
        /\ abortController = s /\ ~isGenerating /\ ~sessionGenerating[s]

\* C5: when the timer of a session fires while the session is still
\* Generating (started, not stopped, model call pending), onError gets the
\* timeout error and the controller is Idle afterwards.
C5_TimeoutReportsError ==
    [][\A s \in Sessions :
          (timer[s] = "pending" /\ timer'[s] = "fired" /\ sessionGenerating[s])
              => /\ nError'[s] = nError[s] + 1
                 /\ lastError'[s] = "timeout"
                 /\ ~isGenerating']_vars

\* C6: when the model call of a session returns or throws, the controller is
\* Idle afterwards: isGenerating false and no cancellation token retained.
C6_FinallyIdle ==
    [][\A s \in Sessions :
          (pc[s] = "running" /\ pc'[s] # "running")
              => /\ ~isGenerating'
                 /\ abortController' = None
                 /\ ~ownAbortController']_vars

\* C6 witness: a model call has thrown an ordinary error.
C6_Witness ==
    \E s \in Sessions : pc[s] = "rejected" /\ outcome[s] = "threwError"

\* C7: a generateStream call rejected as busy changes nothing of the active
\* session or the controller, starts no timer and invokes no callback.
C7_BusyRejectNoEffect ==
    [][\A s \in Sessions :
          (pc[s] = "idle" /\ pc'[s] = "busy")
              => /\ UNCHANGED <<isGenerating, abortController, ownAbortController>>
                 /\ UNCHANGED <<external, aborted, generatedText, timer>>
                 /\ UNCHANGED <<nToken, nDone, nError>>]_vars

\* C7 witness: a call was rejected as busy while another session is Generating.
C7_Witness ==
    \E s, t \in Sessions :
        pc[s] = "busy" /\ pc[t] = "running" /\ isGenerating /\ abortController = t

\* C8: when the model call throws an error that is no abort error and the
\* session's token is not aborted, onError gets the error once, onDone is not
\* invoked and the promise rejects.
C8_ErrorSurfaced ==
    \A s \in Sessions :
        (outcome[s] = "threwError" /\ ~aborted[s])
            => /\ pc[s] = "rejected"
               /\ lastError[s] = "model"
               /\ nDone[s] = 0

\* the earliest position at which any of the stop sequences starts
earliestStop(stops, text) ==
    LET pos == {indexOf(text, stops[k]) : k \in 1..Len(stops)} \ {-1}
    IN CHOOSE i \in pos : \A j \in pos : i <= j

\* C9: trimming cuts the text at the earliest position at which a stop
\* sequence starts, so the result contains no stop sequence.
C9_TrimAtFirstOccurrence ==
    trimPc = "done"
        => /\ trimOut = substring0(trimText, earliestStop(stopSequences, trimText))
           /\ ~shouldStop(trimOut)

\* C10: once a session's callback has ended it early (stop sequence or
\* length limit), no further onToken is delivered for that session.
C10_NoTokenAfterEarlyStop ==
    [][\A s \in Sessions : earlyStopped[s] => nToken'[s] <= nToken[s]]_vars

\* ================================================================ embedder
\* Vectors are sequences of integers whose norm is 0 or 5, so that Math.sqrt
\* and the division of cosineSimilarity are exact; a similarity is kept in
\* thousandths (1.0 is Unit) and mmrLambda in tenths (1.0 is LambdaOne).
Unit == 1000
LambdaOne == 10

\* Math.sqrt on the squares that occur
Sqrt(n) == CHOOSE r \in 0..n : r * r = n

RECURSIVE dotProduct(_, _, _)
dotProduct(vec1, vec2, i) ==
    IF i = 0 THEN 0 ELSE dotProduct(vec1, vec2, i - 1) + vec1[i] * vec2[i]

\* a cosineSimilarity without the check of the lengths
cosineThrows_never(vec1, vec2) == FALSE

\* Embedder.cosineSimilarity throws when the lengths differ
cosineThrows(vec1, vec2) == Len(vec1) # Len(vec2)

\* Embedder.cosineSimilarity for vectors of one length
cosineSimilarity(vec1, vec2) ==
    LET norm1 == Sqrt(dotProduct(vec1, vec1, Len(vec1)))
        norm2 == Sqrt(dotProduct(vec2, vec2, Len(vec2)))
    IN IF norm1 = 0 \/ norm2 = 0
       THEN 0
       ELSE (dotProduct(vec1, vec2, Len(vec1)) * Unit) \div (norm1 * norm2)

\* Array.prototype.slice(0, k) for k >= 0
slice0(list, k) == SubSeq(list, 1, IF k < Len(list) THEN k ELSE Len(list))

\* Array.prototype.splice(index, 1) with a 1-based index
removeAt(list, index) ==
    [k \in 1..(Len(list) - 1) |-> IF k < index THEN list[k] ELSE list[k + 1]]

\* a sort that leaves every element where it was
insertByScore_appends(sorted, e) == Append(sorted, e)

\* scores.sort((a, b) => b.score - a.score): the sort is stable, an element
\* goes behind every element whose score is not smaller
insertByScore(sorted, e) ==
    LET smaller == {k \in 1..Len(sorted) : sorted[k].score < e.score}
        at == IF smaller = {} THEN Len(sorted) + 1
              ELSE CHOOSE k \in smaller : \A m \in smaller : k <= m
    IN [k \in 1..(Len(sorted) + 1) |->
            IF k < at THEN sorted[k] ELSE IF k = at THEN e ELSE sorted[k - 1]]

RECURSIVE sortByScore(_, _)
sortByScore(list, n) ==
    IF n = 0 THEN << >> ELSE insertByScore(sortByScore(list, n - 1), list[n])

\* Embedder.findTopK with the cosine metric
findTopK(queryVector, vecs, k) ==
    LET scores == [j \in 1..Len(vecs) |->
                      [vecs[j] EXCEPT !.score = cosineSimilarity(queryVector, vecs[j].vector)]]
    IN slice0(sortByScore(scores, Len(scores)), k)

\* index of the last largest value (a scan with score >= maxScore)
firstMax_lastAmongTies(scoreOf) ==
    CHOOSE j \in 1..Len(scoreOf) :
        /\ \A m \in 1..Len(scoreOf) : scoreOf[m] <= scoreOf[j]
        /\ \A m \in (j + 1)..Len(scoreOf) : scoreOf[m] < scoreOf[j]

\* remaining.forEach(... if (score > maxScore) ...): index of the first
\* largest value of a non-empty list of scores
firstMax(scoreOf) ==
    CHOOSE j \in 1..Len(scoreOf) :
        /\ \A m \in 1..Len(scoreOf) : scoreOf[m] <= scoreOf[j]
        /\ \A m \in 1..(j - 1) : scoreOf[m] < scoreOf[j]

\* the MMR score of a candidate against the documents selected so far
mmrScore(queryVector, candidate, selected, lambda) ==
    LET relevance == cosineSimilarity(queryVector, candidate.vector)
        sims == {cosineSimilarity(candidate.vector, selected[m].vector) :
                    m \in 1..Len(selected)} \cup {0}
        maxSim == CHOOSE x \in sims : \A y \in sims : y <= x
    IN (lambda * relevance - (LambdaOne - lambda) * maxSim) \div LambdaOne

\* the while loop of Embedder.mmrRerank
RECURSIVE mmrLoop(_, _, _, _, _)
mmrLoop(queryVector, selected, remaining, lambda, k) ==
    IF Len(selected) < k /\ Len(remaining) > 0
    THEN LET scoreOf == [j \in 1..Len(remaining) |->
                            mmrScore(queryVector, remaining[j], selected, lambda)]
             maxIndex == firstMax(scoreOf)
         IN mmrLoop(queryVector,
                    Append(selected, [remaining[maxIndex] EXCEPT !.score = scoreOf[maxIndex]]),
                    removeAt(remaining, maxIndex), lambda, k)
    ELSE selected

\* Embedder.mmrRerank
mmrRerank(queryVector, vecs, lambda, k) ==
    IF Len(vecs) = 0 THEN << >>
    ELSE LET scoreOf == [j \in 1..Len(vecs) |-> cosineSimilarity(queryVector, vecs[j].vector)]
             maxIndex == firstMax(scoreOf)
         IN mmrLoop(queryVector,
                    << [vecs[maxIndex] EXCEPT !.score = scoreOf[maxIndex]] >>,
                    removeAt(vecs, maxIndex), lambda, k)

\* VectorStore.queryVector, "Apply ranking strategy"
rankResults(queryVector, vectorsWithScores, topK, useMMR, mmrLambda) ==
    IF useMMR /\ Len(vectorsWithScores) > 0
    THEN mmrRerank(queryVector, vectorsWithScores, mmrLambda, topK)
    ELSE findTopK(queryVector, vectorsWithScores, topK)

\* ------------------------------------------------- ranked search, on its own
\* VectorStore.queryVector as a function of the query embedding, the records
\* of the 'vectors' store and the options, for an index in which every vector
\* has its chunk and its document.
RankVectors == {<<5, 0>>, <<4, 3>>, <<3, 4>>, <<-4, 3>>, <<0, 0>>, <<5, 0, 0>>}
RankQueries == {<<5, 0>>, <<3, 4>>}
Thresholds == {0, 300, 700}       \* 0.0 (store.js:250), 0.3 (part_001:9), 0.7
Lambdas == {0, 5, 10}             \* 0.0, 0.5 (store.js:252), 1.0
TopKs == 0..MaxTopK

\* a record of the scan: the vector, its score and the chunk and document read
Candidate(id, vec, sc, doc, present) ==
    [chunkId |-> id, vector |-> vec, score |-> sc, docId |-> doc, docPresent |-> present]

\* the scan throws at the first stored vector whose length is not the query's
scanThrows(queryVector, allVectors) ==
    \E j \in 1..Len(allVectors) : cosineThrows(queryVector, allVectors[j].vector)

\* the scan keeps every stored vector, whatever its score
scan_keepsAll(queryVector, allVectors, threshold) ==
    [j \in 1..Len(allVectors) |->
        Candidate(allVectors[j].chunkId, allVectors[j].vector,
                  cosineSimilarity(queryVector, allVectors[j].vector),
                  allVectors[j].docId, TRUE)]

\* the scan loop of queryVector (store.js:265-283)
scan(queryVector, allVectors, threshold) ==
    LET scored == [j \in 1..Len(allVectors) |->
                      Candidate(allVectors[j].chunkId, allVectors[j].vector,
                                cosineSimilarity(queryVector, allVectors[j].vector),
                                allVectors[j].docId, TRUE)]
        atLeast(r) == r.score >= threshold
    IN SelectSeq(scored, atLeast)

\* the records of a store holding the vectors vs under chunk ids 1, 2, ...
recordsOf(vs) == [j \in 1..Len(vs) |-> [chunkId |-> j, vector |-> vs[j], docId |-> 1]]

QueryVector(queryVector, vs, topK, threshold, useMMR, mmrLambda) ==
    /\ rankPc = "idle"
    /\ rankIn' = [query |-> queryVector, allVectors |-> recordsOf(vs), topK |-> topK,
                  threshold |-> threshold, useMMR |-> useMMR, mmrLambda |-> mmrLambda]
    /\ IF scanThrows(queryVector, recordsOf(vs))
       THEN /\ rankOut' = << >>
            /\ rankPc' = "threw"
       ELSE /\ rankOut' = rankResults(queryVector,
                                      scan(queryVector, recordsOf(vs), threshold),
                                      topK, useMMR, mmrLambda)
            /\ rankPc' = "returned"
    /\ UNCHANGED <<chatVars, textVars, storeVars, embedderModel, writer, search, storeHistoryVars>>

NextRank ==
    /\ rankPc = "idle"
    /\ \E queryVector \in RankQueries : \E vs \in SeqsOf(RankVectors, 0, MaxCandidates) :
       \E topK \in TopKs : \E threshold \in Thresholds :
       \E useMMR \in BOOLEAN : \E mmrLambda \in (IF useMMR THEN Lambdas ELSE {5}) :
           QueryVector(queryVector, vs, topK, threshold, useMMR, mmrLambda)

SpecRank == Init /\ [][NextRank]_vars

\* ============================================================ vector index
\* The app runs addDocument, deleteDocument and clear behind a modal progress
\* dialog, one at a time (loader.js:1258-1277, 1796-1800, 1821-1825); a search
\* runs during chat and interleaves with them at every await.  A storage
\* request or an embedding call may fail, which ends the call with the error;
\* failures are followed in the behaviours in which the searches run between
\* the writer calls, interleavings in the behaviours without a failure.

\* IDBObjectStore.put / add and delete on an object store kept as a function
Put(store, key, value) ==
    [x \in DOMAIN store \cup {key} |-> IF x = key THEN value ELSE store[x]]
Delete(store, key) == [x \in DOMAIN store \ {key} |-> store[x]]

\* IDBObjectStore.getAll returns the records in ascending key order
ascending(S) ==
    CHOOSE q \in [1..Cardinality(S) -> S] :
        \A a, b \in 1..Cardinality(S) : a < b => q[a] < q[b]

\* embedder.embed: the vectors the embedding model in use returns for the
\* chunk texts and for the query texts
EmbedModels == {1, 2}
Embeddings(model) == IF model = 1 THEN {<<5, 0>>} ELSE {<<5, 0, 0>>}
QueryEmbeddings(model) == IF model = 1 THEN {<<5, 0>>, <<0, 5>>} ELSE {<<5, 0, 0>>}

WriterSettled == writer.pc \in {"returned", "threw"}
SearchSettled == search.pc \in {"returned", "threw"}
\* a call that has returned or thrown is observed before anything else happens
Quiet == ~WriterSettled /\ ~SearchSettled
CanFail == failures < MaxFailures /\ search.pc = "idle"
WriterMayStart == writer.pc = "idle" /\ (failures = 0 \/ search.pc = "idle")
SearchMayStart == search.pc = "idle" /\ (failures = 0 \/ writer.pc = "idle")

\* the call in progress ends with the error of the failed request
WriterThrows ==
    /\ writer' = [writer EXCEPT !.pc = "threw"]
    /\ failures' = failures + 1

\* initializeEmbedder with another embedding model (loader.js:885)
InitializeEmbedder(modelId) ==
    /\ Quiet /\ writer.pc = "idle" /\ search.pc = "idle"
    /\ modelId # embedderModel
    /\ embedderModel' = modelId
    /\ UNCHANGED <<chatVars, textVars, storeVars, writer, search, storeHistoryVars, rankVars>>

\* ---- VectorStore.addDocument
\* helper.add(documents, doc) and chunkText, which makes n chunks
AddDocument(n) ==
    /\ Quiet /\ WriterMayStart
    /\ lastDocId < MaxDocs
    /\ lastDocId' = lastDocId + 1
    /\ documents' = documents \cup {lastDocId + 1}
    /\ writer' = [IdleWriter EXCEPT !.op = "add", !.docId = lastDocId + 1, !.n = n,
                                    !.pc = IF n = 0 THEN "metadata" ELSE "addChunk"]
    /\ UNCHANGED <<chatVars, textVars, chunks, vectors, config, lastChunkId, embedderModel,
                   search, storeHistoryVars, rankVars>>

\* helper.add(chunks, chunk); chunkIds.push(chunkId)
AddChunk ==
    /\ Quiet /\ writer.op = "add" /\ writer.pc = "addChunk"
    /\ lastChunkId' = lastChunkId + 1
    /\ chunks' = Put(chunks, lastChunkId + 1, [docId |-> writer.docId])
    /\ owner' = Put(owner, lastChunkId + 1, writer.docId)
    /\ writer' = [writer EXCEPT !.chunkIds = Append(@, lastChunkId + 1), !.pc = "embed"]
    /\ UNCHANGED <<chatVars, textVars, documents, vectors, config, lastDocId, embedderModel,
                   search, deletedDocs, failedDeletes, failures, rankVars>>

\* embedder.embed(chunk.text), then storeVector(chunkId, embedding)
EmbedAndStore(embedding, fails) ==
    /\ Quiet /\ writer.op = "add" /\ writer.pc = "embed"
    /\ IF fails
       THEN /\ CanFail
            /\ writer' = [writer EXCEPT !.pc = "threw", !.embedFailed = TRUE]
            /\ failures' = failures + 1
            /\ UNCHANGED vectors
       ELSE /\ vectors' = Put(vectors, writer.chunkIds[Len(writer.chunkIds)], embedding)
            /\ writer' = [writer EXCEPT !.pc = IF Len(writer.chunkIds) < writer.n
                                                THEN "addChunk" ELSE "metadata"]
            /\ UNCHANGED failures
    /\ UNCHANGED <<chatVars, textVars, documents, chunks, config, lastDocId, lastChunkId,
                   embedderModel, search, owner, deletedDocs, failedDeletes, rankVars>>

\* "Update metadata", "Verify embeddings were created" and the return
AddDocumentFinish ==
    /\ Quiet /\ writer.op = "add" /\ writer.pc = "metadata"
    /\ config' = [totalDocuments |-> config.totalDocuments + 1,
                  totalChunks |-> config.totalChunks + writer.n,
                  dimensions |-> IF config.dimensions = 0 /\ writer.n > 0
                                 THEN Len(vectors[writer.chunkIds[1]])
                                 ELSE config.dimensions]
    /\ LET verifiedCount == Cardinality({k \in 1..Len(writer.chunkIds) :
                                            writer.chunkIds[k] \in DOMAIN vectors})
       IN writer' = [writer EXCEPT !.pc = "returned",
                        !.result = [count |-> writer.n,
                                    embeddingCount |-> verifiedCount,
                                    success |-> verifiedCount = Len(writer.chunkIds)]]
    /\ UNCHANGED <<chatVars, textVars, documents, chunks, vectors, lastDocId, lastChunkId,
                   embedderModel, search, storeHistoryVars, rankVars>>

\* ---- VectorStore.deleteDocument
\* helper.getAll(chunks), filtered by docId
DeleteDocument(docId) ==
    /\ Quiet /\ WriterMayStart
    /\ config.totalDocuments >= 0
    /\ LET chunkIds == ascending({c \in DOMAIN chunks : chunks[c].docId = docId})
       IN writer' = [IdleWriter EXCEPT !.op = "delete", !.docId = docId,
                        !.chunkIds = chunkIds, !.i = 1, !.n = Len(chunkIds),
                        !.pc = IF Len(chunkIds) = 0 THEN "deleteDoc" ELSE "deleteChunk"]
    /\ UNCHANGED <<chatVars, textVars, storeVars, embedderModel, search, storeHistoryVars, rankVars>>

\* helper.delete(chunks, chunkId)
DeleteChunk(fails) ==
    /\ Quiet /\ writer.op = "delete" /\ writer.pc = "deleteChunk"
    /\ IF fails
       THEN /\ CanFail /\ WriterThrows
            /\ failedDeletes' = failedDeletes \cup {writer.docId}
            /\ UNCHANGED chunks
       ELSE /\ chunks' = Delete(chunks, writer.chunkIds[writer.i])
            /\ writer' = [writer EXCEPT !.pc = "deleteVector"]
            /\ UNCHANGED <<failedDeletes, failures>>
    /\ UNCHANGED <<chatVars, textVars, documents, vectors, config, lastDocId, lastChunkId,
                   embedderModel, search, owner, deletedDocs, rankVars>>

\* helper.delete(vectors, chunkId)
DeleteVector(fails) ==
    /\ Quiet /\ writer.op = "delete" /\ writer.pc = "deleteVector"
    /\ IF fails
       THEN /\ CanFail /\ WriterThrows
            /\ failedDeletes' = failedDeletes \cup {writer.docId}
            /\ UNCHANGED vectors
       ELSE /\ vectors' = Delete(vectors, writer.chunkIds[writer.i])
            /\ writer' = [writer EXCEPT !.i = @ + 1,
                             !.pc = IF writer.i < writer.n THEN "deleteChunk" ELSE "deleteDoc"]
            /\ UNCHANGED <<failedDeletes, failures>>
    /\ UNCHANGED <<chatVars, textVars, documents, chunks, config, lastDocId, lastChunkId,
                   embedderModel, search, owner, deletedDocs, rankVars>>

\* helper.delete(documents, docId), "Update metadata" and the return
DeleteDocumentFinish(fails) ==
    /\ Quiet /\ writer.op = "delete" /\ writer.pc = "deleteDoc"
    /\ IF fails
       THEN /\ CanFail /\ WriterThrows
            /\ failedDeletes' = failedDeletes \cup {writer.docId}
            /\ UNCHANGED <<documents, config, deletedDocs>>
       ELSE /\ documents' = documents \ {writer.docId}
            /\ config' = [config EXCEPT !.totalDocuments = @ - 1,
                                        !.totalChunks = @ - writer.n]
            /\ writer' = [writer EXCEPT !.pc = "returned", !.result.count = writer.n]
            /\ deletedDocs' = deletedDocs \cup {writer.docId}
            /\ UNCHANGED <<failedDeletes, failures>>
    /\ UNCHANGED <<chatVars, textVars, chunks, vectors, lastDocId, lastChunkId,
                   embedderModel, search, owner, rankVars>>

\* ---- VectorStore.clear
\* helper.clear(documents)
Clear ==
    /\ Quiet /\ WriterMayStart
    /\ documents # {} \/ DOMAIN chunks # {} \/ DOMAIN vectors # {}
    /\ documents' = {}
    /\ writer' = [IdleWriter EXCEPT !.op = "clear", !.pc = "clearChunks"]
    /\ UNCHANGED <<chatVars, textVars, chunks, vectors, config, lastDocId, lastChunkId,
                   embedderModel, search, storeHistoryVars, rankVars>>

\* helper.clear(chunks)
ClearChunks(fails) ==
    /\ Quiet /\ writer.op = "clear" /\ writer.pc = "clearChunks"
    /\ IF fails
       THEN CanFail /\ WriterThrows /\ UNCHANGED chunks
       ELSE /\ chunks' = << >>
            /\ writer' = [writer EXCEPT !.pc = "clearVectors"]
            /\ UNCHANGED failures
    /\ UNCHANGED <<chatVars, textVars, documents, vectors, config, lastDocId, lastChunkId,
                   embedderModel, search, owner, deletedDocs, failedDeletes, rankVars>>

\* helper.clear(vectors), "Reset metadata" and the return
ClearVectors(fails) ==
    /\ Quiet /\ writer.op = "clear" /\ writer.pc = "clearVectors"
    /\ IF fails
       THEN CanFail /\ WriterThrows /\ UNCHANGED <<vectors, config>>
       ELSE /\ vectors' = << >>
            /\ config' = [config EXCEPT !.totalDocuments = 0, !.totalChunks = 0]
            /\ writer' = [writer EXCEPT !.pc = "returned"]
            /\ UNCHANGED failures
    /\ UNCHANGED <<chatVars, textVars, documents, chunks, lastDocId, lastChunkId,
                   embedderModel, search, owner, deletedDocs, failedDeletes, rankVars>>

\* ---- VectorStore.compact
\* getAll(documents), getAll(chunks); the chunks the loop will remove are
\* those of the snapshot whose docId is not in validDocIds
Compact ==
    /\ Quiet /\ WriterMayStart
    /\ LET orphans == ascending({c \in DOMAIN chunks : chunks[c].docId \notin documents})
       IN writer' = [IdleWriter EXCEPT !.op = "compact", !.chunkIds = orphans,
                        !.i = 1, !.n = Len(orphans),
                        !.pc = IF Len(orphans) = 0 THEN "returned" ELSE "compactChunk"]
    /\ UNCHANGED <<chatVars, textVars, storeVars, embedderModel, search, storeHistoryVars, rankVars>>

\* helper.delete(chunks, chunk.id)
CompactDeleteChunk(fails) ==
    /\ Quiet /\ writer.op = "compact" /\ writer.pc = "compactChunk"
    /\ IF fails
       THEN CanFail /\ WriterThrows /\ UNCHANGED chunks
       ELSE /\ chunks' = Delete(chunks, writer.chunkIds[writer.i])
            /\ writer' = [writer EXCEPT !.pc = "compactVector"]
            /\ UNCHANGED failures
    /\ UNCHANGED <<chatVars, textVars, documents, vectors, config, lastDocId, lastChunkId,
                   embedderModel, search, owner, deletedDocs, failedDeletes, rankVars>>

\* helper.delete(vectors, chunk.id); removedChunks++
CompactDeleteVector(fails) ==
    /\ Quiet /\ writer.op = "compact" /\ writer.pc = "compactVector"
    /\ IF fails
       THEN CanFail /\ WriterThrows /\ UNCHANGED vectors
       ELSE /\ vectors' = Delete(vectors, writer.chunkIds[writer.i])
            /\ writer' = [writer EXCEPT !.i = @ + 1, !.result.count = writer.i,
                             !.pc = IF writer.i < writer.n THEN "compactChunk" ELSE "returned"]
            /\ UNCHANGED failures
    /\ UNCHANGED <<chatVars, textVars, documents, chunks, config, lastDocId, lastChunkId,
                   embedderModel, search, owner, deletedDocs, failedDeletes, rankVars>>

\* the caller has seen the result or the error
WriterForget ==
    /\ WriterSettled
    /\ writer' = IdleWriter
    /\ UNCHANGED <<chatVars, textVars, storeVars, embedderModel, search, storeHistoryVars, rankVars>>

\* ---- VectorStore.queryVector (search)
StoreThresholds == {0, 700}

\* embedder.embed(queryText) and helper.getAll(vectors)
SearchStart(queryVector, threshold) ==
    /\ Quiet /\ SearchMayStart
    /\ LET keys == ascending(DOMAIN vectors)
           allVectors == [j \in 1..Len(keys) |->
                             [chunkId |-> keys[j], vector |-> vectors[keys[j]]]]
       IN search' = [IdleSearch EXCEPT !.query = queryVector, !.threshold = threshold,
                        !.allVectors = allVectors, !.i = 1,
                        !.deletedBefore = deletedDocs,
                        !.pc = IF Len(allVectors) = 0 THEN "rank" ELSE "score"]
    /\ UNCHANGED <<chatVars, textVars, storeVars, embedderModel, writer, storeHistoryVars, rankVars>>

\* the loop goes on to the next record, or to the ranking after the last one
searchAdvance(sr) ==
    [sr EXCEPT !.i = @ + 1, !.pc = IF sr.i < Len(sr.allVectors) THEN "score" ELSE "rank"]

\* one record of the scan: cosineSimilarity, the threshold test and
\* helper.get(chunks, record.chunkId); chunk.docId of a missing chunk throws
SearchScore ==
    /\ Quiet /\ search.pc = "score"
    /\ LET record == search.allVectors[search.i]
       IN IF cosineThrows(search.query, record.vector)
          THEN search' = [search EXCEPT !.pc = "threw", !.error = "dimensions"]
          ELSE LET score == cosineSimilarity(search.query, record.vector)
               IN IF score >= search.threshold
                  THEN IF record.chunkId \in DOMAIN chunks
                       THEN search' = [search EXCEPT !.pc = "getDoc", !.score = score,
                                          !.docId = chunks[record.chunkId].docId]
                       ELSE search' = [search EXCEPT !.pc = "threw", !.error = "chunk"]
                  ELSE search' = searchAdvance(search)
    /\ UNCHANGED <<chatVars, textVars, storeVars, embedderModel, writer, storeHistoryVars, rankVars>>

\* helper.get(documents, chunk.docId) and vectorsWithScores.push
SearchGetDoc ==
    /\ Quiet /\ search.pc = "getDoc"
    /\ LET record == search.allVectors[search.i]
           found == Candidate(record.chunkId, record.vector, search.score,
                              search.docId, search.docId \in documents)
       IN search' = searchAdvance([search EXCEPT !.score = 0, !.docId = 0,
                                      !.vectorsWithScores = Append(@, found)])
    /\ UNCHANGED <<chatVars, textVars, storeVars, embedderModel, writer, storeHistoryVars, rankVars>>

\* "Apply ranking strategy" and the return
SearchRank(topK, useMMR, mmrLambda) ==
    /\ Quiet /\ search.pc = "rank"
    /\ search' = [search EXCEPT !.pc = "returned",
                     !.results = rankResults(search.query, search.vectorsWithScores,
                                             topK, useMMR, mmrLambda)]
    /\ UNCHANGED <<chatVars, textVars, storeVars, embedderModel, writer, storeHistoryVars, rankVars>>

\* the caller has seen the results or the error
SearchForget ==
    /\ SearchSettled
    /\ search' = IdleSearch
    /\ UNCHANGED <<chatVars, textVars, storeVars, embedderModel, writer, storeHistoryVars, rankVars>>

NextStore ==
    \/ \E modelId \in EmbedModels : InitializeEmbedder(modelId)
    \/ \E n \in 0..MaxChunks : AddDocument(n)
    \/ AddChunk
    \/ \E embedding \in Embeddings(embedderModel) : \E fails \in BOOLEAN :
          EmbedAndStore(embedding, fails)
    \/ AddDocumentFinish
    \/ \E docId \in 1..lastDocId : DeleteDocument(docId)
    \/ \E fails \in BOOLEAN : DeleteChunk(fails)
    \/ \E fails \in BOOLEAN : DeleteVector(fails)
    \/ \E fails \in BOOLEAN : DeleteDocumentFinish(fails)
    \/ Clear
    \/ \E fails \in BOOLEAN : ClearChunks(fails)
    \/ \E fails \in BOOLEAN : ClearVectors(fails)
    \/ Compact
    \/ \E fails \in BOOLEAN : CompactDeleteChunk(fails)
    \/ \E fails \in BOOLEAN : CompactDeleteVector(fails)
    \/ WriterForget
    \/ \E queryVector \in QueryEmbeddings(embedderModel) : \E threshold \in StoreThresholds :
          SearchStart(queryVector, threshold)
    \/ SearchScore
    \/ SearchGetDoc
    \/ \E topK \in {1, MaxTopK} : \E useMMR \in BOOLEAN : SearchRank(topK, useMMR, 5)
    \/ SearchForget

SpecStore == Init /\ [][NextStore]_vars

\* ------------------------------------------------ the claims on the index
\* no chunk record and no vector record of document d is in the store
docClean(d) ==
    /\ \A c \in DOMAIN chunks : chunks[c].docId # d
    /\ \A c \in DOMAIN vectors : owner[c] # d

\* C11: once deleteDocument(d) has returned, the store holds no chunk and no
\* vector of d, and a search started afterwards returns no chunk of d.
C11_DeletedDocumentGone ==
    /\ \A d \in deletedDocs : docClean(d)
    /\ search.pc = "returned" =>
          \A k \in 1..Len(search.results) :
              search.results[k].docId \notin search.deletedBefore

\* C12: when a deleteDocument(d) has failed at a storage step and a later
\* deleteDocument(d) has run to completion, no chunk and no vector of d is left.
C12_DeleteConvergesOnRetry ==
    \A d \in deletedDocs \cap failedDeletes : docClean(d)

\* C13: when compact() returns, every chunk has its document and every vector
\* has its chunk and its document.
C13_CompactLeavesNoOrphan ==
    (writer.op = "compact" /\ writer.pc = "returned") =>
        /\ \A c \in DOMAIN chunks : chunks[c].docId \in documents
        /\ \A c \in DOMAIN vectors : c \in DOMAIN chunks /\ owner[c] \in documents

\* C14: an addDocument during which an embedding call failed still returns a
\* result, with success false and the number of chunks that have a vector.
C14_EmbeddingFailureReported ==
    (writer.op = "add" /\ writer.embedFailed /\ WriterSettled) =>
        /\ writer.pc = "returned"
        /\ ~writer.result.success
        /\ writer.result.embeddingCount =
              Cardinality({k \in 1..Len(writer.chunkIds) :
                              writer.chunkIds[k] \in DOMAIN vectors})

\* C15: all stored vectors have one length (that of the first vector stored).
C15_OneDimensionality ==
    \A c1, c2 \in DOMAIN vectors : Len(vectors[c1]) = Len(vectors[c2])

\* ---------------------------------------------- the claims on the ranking
\* the candidates of the ranked search: the stored vectors at or above the threshold
rankCandidates == scan(rankIn.query, rankIn.allVectors, rankIn.threshold)
chunkIdsOf(list) == [k \in 1..Len(list) |-> list[k].chunkId]
Min(a, b) == IF a < b THEN a ELSE b

\* a stored vector whose length is not the query vector's
storedMismatch(j) == Len(rankIn.allVectors[j].vector) # Len(rankIn.query)

\* C16: a search whose query vector differs in length from a stored vector
\* ends with an error and returns no result list.
C16_MismatchAbortsSearch ==
    (rankPc # "idle" /\ \E j \in 1..Len(rankIn.allVectors) : storedMismatch(j)) =>
        /\ rankPc = "threw"
        /\ rankOut = << >>
\* the search threw on a mismatch that came after a vector at or above the threshold
C16_Witness ==
    /\ rankPc = "threw"
    /\ \E j \in 2..Len(rankIn.allVectors) :
          /\ storedMismatch(j) /\ ~storedMismatch(1)
          /\ cosineSimilarity(rankIn.query, rankIn.allVectors[1].vector) >= rankIn.threshold

\* C17: every returned result has score >= threshold, in both ranking modes.
C17_ResultsAtLeastThreshold ==
    rankPc = "returned" =>
        \A k \in 1..Len(rankOut) : rankOut[k].score >= rankIn.threshold

\* similarity of candidate j to the query
similarity(j) == cosineSimilarity(rankIn.query, rankCandidates[j].vector)

\* C18: for a non-empty candidate set the MMR result has at most topK elements
\* and starts with the candidate most similar to the query (the first of ties).
C18_MmrSizeAndFirst ==
    (rankPc = "returned" /\ rankIn.useMMR /\ Len(rankCandidates) > 0) =>
        /\ Len(rankOut) <= rankIn.topK
        /\ Len(rankOut) > 0 =>
              \E j \in 1..Len(rankCandidates) :
                  /\ rankOut[1].chunkId = rankCandidates[j].chunkId
                  /\ \A m \in 1..Len(rankCandidates) : similarity(m) <= similarity(j)
                  /\ \A m \in 1..(j - 1) : similarity(m) < similarity(j)

\* C19: with topK = 1 the MMR search returns the chunk the plain top-K search
\* returns for the same index, query and threshold.
C19_MmrTop1IsPlainTop1 ==
    (rankPc = "returned" /\ rankIn.useMMR /\ rankIn.topK = 1) =>
        chunkIdsOf(rankOut) = chunkIdsOf(findTopK(rankIn.query, rankCandidates, 1))
\* an MMR search with topK = 1 whose two best candidates have the same score
C19_Witness ==
    /\ rankPc = "returned" /\ rankIn.useMMR /\ rankIn.topK = 1 /\ Len(rankOut) = 1
    /\ \E j, m \in 1..Len(rankCandidates) :
          /\ j # m /\ similarity(j) = similarity(m)
          /\ \A x \in 1..Len(rankCandidates) : similarity(x) <= similarity(j)

\* C20: the plain top-K search returns min(topK, candidates) results in
\* non-increasing score order and omits no candidate that scores higher than
\* a returned one.
C20_PlainTopK ==
    (rankPc = "returned" /\ ~rankIn.useMMR) =>
        /\ Len(rankOut) = Min(rankIn.topK, Len(rankCandidates))
        /\ \A k \in 1..(Len(rankOut) - 1) : rankOut[k].score >= rankOut[k + 1].score
        /\ \A j \in 1..Len(rankCandidates) :
              (\A k \in 1..Len(rankOut) : rankOut[k].chunkId # rankCandidates[j].chunkId)
                  => \A k \in 1..Len(rankOut) : rankCandidates[j].score <= rankOut[k].score
\* a plain search that had to reorder its candidates and to cut them at topK
C20_Witness ==
    /\ rankPc = "returned" /\ ~rankIn.useMMR
    /\ 0 < rankIn.topK /\ rankIn.topK < Len(rankCandidates)
    /\ rankCandidates[1].score < rankCandidates[2].score

\* ================================================================= chunker
\* A text is a sequence over the letter "a" and the space; a word is a text
\* without a space.
DocChars == {"a", " "}
isSpace(ch) == ch = " "

\* String.prototype.split(/\s+/): the pieces between the maximal runs of
\* whitespace, an empty piece before a leading and after a trailing run
RECURSIVE splitWhitespace(_, _, _, _)
splitWhitespace(text, i, piece, pieces) ==
    IF i > Len(text) THEN Append(pieces, piece)
    ELSE IF isSpace(text[i])
         THEN IF i > 1 /\ isSpace(text[i - 1])
              THEN splitWhitespace(text, i + 1, piece, pieces)
              ELSE splitWhitespace(text, i + 1, << >>, Append(pieces, piece))
         ELSE splitWhitespace(text, i + 1, Append(piece, text[i]), pieces)
split(text) == splitWhitespace(text, 1, << >>, << >>)

\* Array.prototype.join(' ')
RECURSIVE joinFrom(_, _)
joinFrom(words, n) ==
    IF n = 0 THEN << >>
    ELSE IF n = 1 THEN words[1]
    ELSE joinFrom(words, n - 1) \o <<" ">> \o words[n]
join(words) == joinFrom(words, Len(words))

\* Math.ceil(a / b) for a >= 0, b > 0
ceilDiv(a, b) == (a + b - 1) \div b

\* approximateTokens (store.js:176): Math.ceil(text.split(/\s+/).length / 0.75)
approximateTokens(text) == ceilDiv(4 * Len(split(text)), 3)

\* the first k elements instead of the last k
sliceLast_firstWords(list, k) == IF k >= Len(list) THEN list ELSE SubSeq(list, 1, k)

\* Array.prototype.slice(-k) for k >= 0: slice(-0) is slice(0), the whole array
sliceLast(list, k) ==
    IF k = 0 \/ k >= Len(list) THEN list
    ELSE SubSeq(list, Len(list) - k + 1, Len(list))

\* the chunk object pushed by chunkText; words is the word list it was joined from
Chunk(currentChunk, position, startIndex, endIndex, currentTokenCount) ==
    [text |-> join(currentChunk), position |-> position, startIndex |-> startIndex,
     endIndex |-> endIndex, tokenCount |-> currentTokenCount, words |-> currentChunk]

\* the for loop of chunkText from word i (0-based) on, then "Save the last chunk"
RECURSIVE chunkLoop(_, _, _, _, _, _, _, _)
chunkLoop(words, i, chunkSize, overlap, out, currentChunk, currentTokenCount, position) ==
    IF i >= Len(words)
    THEN IF Len(currentChunk) > 0
         THEN Append(out, Chunk(currentChunk, position, Len(words) - Len(currentChunk),
                                Len(words), currentTokenCount))
         ELSE out
    ELSE LET word == words[i + 1]
             wordTokens == approximateTokens(word)
         IN IF currentTokenCount + wordTokens > chunkSize /\ Len(currentChunk) > 0
            THEN LET overlapWords == (Len(currentChunk) * overlap) \div chunkSize
                     seed == sliceLast(currentChunk, overlapWords)
                 IN chunkLoop(words, i + 1, chunkSize, overlap,
                              Append(out, Chunk(currentChunk, position, i - Len(currentChunk),
                                                i, currentTokenCount)),
                              Append(seed, word),
                              approximateTokens(join(seed)) + wordTokens,
                              position + 1)
            ELSE chunkLoop(words, i + 1, chunkSize, overlap, out,
                           Append(currentChunk, word),
                           currentTokenCount + wordTokens, position)

\* VectorStore.chunkText
chunkText(text, chunkSize, overlap) ==
    chunkLoop(split(text), 0, chunkSize, overlap, << >>, << >>, 0, 0)

\* one call of chunkText
ChunkText(text, chunkSize, overlap) ==
    /\ chunkIn' = [text |-> text, chunkSize |-> chunkSize, overlap |-> overlap]
    /\ chunkOut' = chunkText(text, chunkSize, overlap)
    /\ chunkPc' = "returned"
    /\ UNCHANGED <<chatVars, indexVars, contextVars, frontVars>>

NextChunk ==
    /\ chunkPc = "idle"
    /\ \E text \in SeqsOf(DocChars, 0, MaxDocLen) :
       \E chunkSize \in 1..MaxChunkSize : \E overlap \in 0..MaxChunkSize :
           ChunkText(text, chunkSize, overlap)

SpecChunk == Init /\ [][NextChunk]_vars

\* RAGPipeline.estimateTokens (part_001:182-192):
\* Math.ceil((text.length / 4 + text.split(/\s+/).length / 0.75) / 2)
estimateTokens(text) == ceilDiv(3 * Len(text) + 16 * Len(split(text)), 24)

\* ---------------------------------------------------------- chunker claims
chunkReturned == chunkPc = "returned"
chunkWords == split(chunkIn.text)
isWhitespaceOnly(text) == \A i \in 1..Len(text) : isSpace(text[i])
RECURSIVE sumTextLength(_, _)
sumTextLength(out, n) == IF n = 0 THEN 0 ELSE sumTextLength(out, n - 1) + Len(out[n].text)
suffix(list, k) == SubSeq(list, Len(list) - k + 1, Len(list))

\* C24: chunking an empty string or a string made only of whitespace yields
\* zero chunks.
C24_BlankTextNoChunks ==
    (chunkReturned /\ isWhitespaceOnly(chunkIn.text)) => chunkOut = << >>

\* C25: chunking is total: every whitespace-delimited word of the original
\* text appears in at least one emitted chunk, and the summed length of the
\* chunk texts is at least the length of the original text.
C25_ChunkingTotal ==
    chunkReturned =>
        /\ \A w \in 1..Len(chunkWords) :
               chunkWords[w] # << >> =>
                   \E j \in 1..Len(chunkOut) : \E x \in 1..Len(chunkOut[j].words) :
                       chunkOut[j].words[x] = chunkWords[w]
        /\ sumTextLength(chunkOut, Len(chunkOut)) >= Len(chunkIn.text)

\* C26: when a chunk with n words is closed, the next chunk starts with exactly
\* the last floor(n * overlap / chunkSize) words of the closed chunk followed
\* by the next unread word; when that number is 0 the next chunk repeats no
\* word of the closed chunk.
C26_OverlapSeed ==
    chunkReturned =>
        \A j \in 1..(Len(chunkOut) - 1) :
            LET closed == chunkOut[j]
                next == chunkOut[j + 1]
                overlapWords == (Len(closed.words) * chunkIn.overlap) \div chunkIn.chunkSize
            IN /\ Len(next.words) >= overlapWords + 1
               /\ SubSeq(next.words, 1, overlapWords + 1)
                      = suffix(closed.words, overlapWords) \o <<chunkWords[closed.endIndex + 1]>>
               /\ Len(next.words) - (next.endIndex - closed.endIndex) = overlapWords

\* C27: for overlap < chunkSize, each emitted chunk that contains more than
\* one word has tokenCount <= chunkSize.
C27_ChunksSizeBounded ==
    (chunkReturned /\ chunkIn.overlap < chunkIn.chunkSize) =>
        \A j \in 1..Len(chunkOut) :
            Len(chunkOut[j].words) > 1 => chunkOut[j].tokenCount <= chunkIn.chunkSize

\* C28: for every chunk text, the token cost the assembler charges for it
\* (estimateTokens) equals the estimate the chunker computes for that text
\* (approximateTokens).
C28_SameTokenEstimate ==
    chunkReturned =>
        \A j \in 1..Len(chunkOut) :
            estimateTokens(chunkOut[j].text) = approximateTokens(chunkOut[j].text)

\* ======================================================= context assembler
\* RAGPipeline.retrieveContext over an index built by addDocument: document d
\* holds the chunks chunkText made of its text, in position order, and every
\* chunk has one vector under its chunk id.
ContextChunkSize == 2
ContextVectors == {<<5, 0>>, <<4, 3>>, <<-4, 3>>, <<5, 0, 0>>}
ContextQuery == <<5, 0>>
ContextThreshold == 300           \* 0.3 (part_001:9)
ContextLambda == 5                \* 0.5 (part_001:11)
Budgets == 0..MaxBudget

\* a document of k words
textOfWords(k) == join([w \in 1..k |-> <<"a">>])

\* the documents of an index, each given by its number of words
Corpora == {docs \in SeqsOf(1..MaxCandidates, 0, MaxDocs) : SumTo(docs, Len(docs)) <= MaxCandidates}

\* the 'chunks' store after addDocument of docs[1], docs[2], ...: chunk ids 1, 2, ...
RECURSIVE chunksOfCorpus(_, _)
chunksOfCorpus(docs, d) ==
    IF d = 0 THEN << >>
    ELSE LET made == chunkText(textOfWords(docs[d]), ContextChunkSize, 0)
         IN chunksOfCorpus(docs, d - 1) \o
            [j \in 1..Len(made) |-> [docId |-> d, text |-> made[j].text,
                                     position |-> made[j].position]]

\* the 'vectors' store: the vector vs[j] under chunk id j
vectorsOfCorpus(chunkTable, vs) ==
    [j \in 1..Len(chunkTable) |-> [chunkId |-> j, vector |-> vs[j], docId |-> chunkTable[j].docId]]

\* the entry pushed on contextChunks; chunkId names the chunk it was made from
ContextChunk(result, chunk) ==
    [text |-> chunk.text, score |-> result.score, position |-> chunk.position,
     docId |-> chunk.docId, docName |-> chunk.docId, chunkId |-> result.chunkId]

\* the budget test is made after the chunk is pushed (a chunk may overshoot)
overBudget_afterPush(currentTokens, chunkTokens, maxContextTokens) ==
    currentTokens > maxContextTokens

\* if (currentTokens + chunkTokens > config.maxContextTokens) break
overBudget(currentTokens, chunkTokens, maxContextTokens) ==
    currentTokens + chunkTokens > maxContextTokens

\* "Build context with token budget": the for loop from result i on
RECURSIVE contextLoop(_, _, _, _, _, _, _)
contextLoop(results, i, chunkTable, topK, maxContextTokens, contextChunks, currentTokens) ==
    IF i > Len(results)
    THEN [contextChunks |-> contextChunks, currentTokens |-> currentTokens]
    ELSE LET chunk == chunkTable[results[i].chunkId]
             chunkTokens == estimateTokens(chunk.text)
         IN IF overBudget(currentTokens, chunkTokens, maxContextTokens)
            THEN [contextChunks |-> contextChunks, currentTokens |-> currentTokens]
            ELSE LET pushed == Append(contextChunks, ContextChunk(results[i], chunk))
                 IN IF Len(pushed) >= topK
                    THEN [contextChunks |-> pushed, currentTokens |-> currentTokens + chunkTokens]
                    ELSE contextLoop(results, i + 1, chunkTable, topK, maxContextTokens,
                                     pushed, currentTokens + chunkTokens)

\* the keys of a Map filled in the order of list, in insertion order
RECURSIVE keysInOrder(_, _)
keysInOrder(list, n) ==
    IF n = 0 THEN << >>
    ELSE LET before == keysInOrder(list, n - 1)
         IN IF \E k \in 1..Len(before) : before[k] = list[n].docId
            THEN before
            ELSE Append(before, list[n].docId)

\* the chunks of one document, in the order of list
chunksOfDoc(list, docId) == LET same(c) == c.docId = docId IN SelectSeq(list, same)

\* the relevance of a source is the score of its last chunk
maxScore_last(chunkList) == chunkList[Len(chunkList)].score

\* Math.max(...source.chunks.map(c => c.score)) of a non-empty list
maxScore(chunkList) ==
    CHOOSE m \in {chunkList[k].score : k \in 1..Len(chunkList)} :
        \A k \in 1..Len(chunkList) : chunkList[k].score <= m

\* sourcesList.sort((a, b) => b.relevance - a.relevance), a stable sort
RECURSIVE insertByRelevance(_, _)
insertByRelevance(sorted, source) ==
    IF sorted = << >> THEN <<source>>
    ELSE IF sorted[Len(sorted)].relevance >= source.relevance
         THEN Append(sorted, source)
         ELSE Append(insertByRelevance(SubSeq(sorted, 1, Len(sorted) - 1), source),
                     sorted[Len(sorted)])
RECURSIVE sortByRelevance(_, _)
sortByRelevance(list, n) ==
    IF n = 0 THEN << >> ELSE insertByRelevance(sortByRelevance(list, n - 1), list[n])

\* the sources Map turned into the sorted sourcesList
sourcesList(contextChunks) ==
    LET ids == keysInOrder(contextChunks, Len(contextChunks))
        values == [k \in 1..Len(ids) |->
                      LET own == chunksOfDoc(contextChunks, ids[k])
                      IN [id |-> ids[k], name |-> ids[k],
                          chunks |-> [x \in 1..Len(own) |->
                                         [position |-> own[x].position, score |-> own[x].score]],
                          relevance |-> maxScore(own)]]
    IN sortByRelevance(values, Len(values))

\* the chunks of a group stay in ranked order
sortByPosition_keepsOrder(list, n) == list

\* docChunks.sort((a, b) => a.position - b.position), a stable sort
RECURSIVE insertByPosition(_, _)
insertByPosition(sorted, chunk) ==
    IF sorted = << >> THEN <<chunk>>
    ELSE IF sorted[Len(sorted)].position <= chunk.position
         THEN Append(sorted, chunk)
         ELSE Append(insertByPosition(SubSeq(sorted, 1, Len(sorted) - 1), chunk),
                     sorted[Len(sorted)])
RECURSIVE insertAllByPosition(_, _)
insertAllByPosition(list, n) ==
    IF n = 0 THEN << >> ELSE insertByPosition(insertAllByPosition(list, n - 1), list[n])
sortByPosition(list, n) == insertAllByPosition(list, n)

\* the pieces a formatted context is made of
Piece(kind, docIndex, chunk) ==
    [kind |-> kind, docIndex |-> docIndex, docId |-> chunk.docId, position |-> chunk.position,
     text |-> chunk.text, chunkId |-> chunk.chunkId]
NoChunk == [docId |-> 0, position |-> 0, text |-> << >>, chunkId |-> 0]

\* the pieces of document groups docIndex, docIndex + 1, ... of formatContext:
\* the header if includeMetadata, then the group's chunks by position, each
\* followed by its line break and an empty line
RECURSIVE formatGroups(_, _, _, _)
formatGroups(chunkList, ids, docIndex, includeMetadata) ==
    IF docIndex > Len(ids) THEN << >>
    ELSE LET docChunks == chunksOfDoc(chunkList, ids[docIndex])
             ordered == sortByPosition(docChunks, Len(docChunks))
             header == IF includeMetadata
                       THEN << Piece("header", docIndex, [NoChunk EXCEPT !.docId = docChunks[1].docName]) >>
                       ELSE << >>
         IN header \o [x \in 1..Len(ordered) |-> Piece("chunk", docIndex, ordered[x])]
                   \o formatGroups(chunkList, ids, docIndex + 1, includeMetadata)

\* RAGPipeline.formatContext: '' for no chunk, else 'CONTEXT:' and a rule, the
\* document groups in the order of their first chunk, and a closing rule
formatContext(chunkList, includeMetadata) ==
    IF Len(chunkList) = 0 THEN << >>
    ELSE << Piece("title", 0, NoChunk), Piece("rule", 0, NoChunk) >>
         \o formatGroups(chunkList, keysInOrder(chunkList, Len(chunkList)), 1, includeMetadata)
         \o << Piece("rule", 0, NoChunk) >>

\* RAGPipeline.retrieveContext once vectorStore.search has returned results
retrieveContext(results, chunkTable, topK, maxContextTokens, includeMetadata) ==
    IF Len(results) = 0
    THEN [NoContext EXCEPT !.searchResults = results]
    ELSE LET built == contextLoop(results, 1, chunkTable, topK, maxContextTokens, << >>, 0)
         IN [contextText |-> formatContext(built.contextChunks, includeMetadata),
             sources |-> sourcesList(built.contextChunks),
             tokensUsed |-> built.currentTokens,
             chunksUsed |-> Len(built.contextChunks),
             searchResults |-> results,
             contextChunks |-> built.contextChunks]

\* one call of retrieveContext with the default threshold, mmrLambda and
\* includeMetadata; search throws when a stored vector has another length than
\* the query embedding, and the error leaves retrieveContext
RetrieveContext(docs, vs, topK, useMMR, maxContextTokens) ==
    \E chunkTable \in {chunksOfCorpus(docs, Len(docs))} :
    \E allVectors \in {vectorsOfCorpus(chunkTable, vs)} :
       /\ ctxIn' = [query |-> ContextQuery, allVectors |-> allVectors, chunks |-> chunkTable,
                    topK |-> topK, threshold |-> ContextThreshold, useMMR |-> useMMR,
                    mmrLambda |-> ContextLambda, maxContextTokens |-> maxContextTokens,
                    includeMetadata |-> TRUE]
       /\ IF scanThrows(ContextQuery, allVectors)
          THEN /\ ctxOut' = NoContext
               /\ ctxPc' = "threw"
          ELSE /\ \E results \in {rankResults(ContextQuery,
                                              scan(ContextQuery, allVectors, ContextThreshold),
                                              topK * 2, useMMR, ContextLambda)} :
                      ctxOut' = retrieveContext(results, chunkTable, topK, maxContextTokens, TRUE)
               /\ ctxPc' = "returned"
       /\ UNCHANGED <<chatVars, indexVars, chunkerVars, frontVars>>

NextContext ==
    /\ ctxPc = "idle"
    /\ \E docs \in Corpora :
       \E vs \in [1..SumTo(docs, Len(docs)) -> ContextVectors] :
       \E topK \in TopKs : \E useMMR \in BOOLEAN : \E maxContextTokens \in Budgets :
           RetrieveContext(docs, vs, topK, useMMR, maxContextTokens)

SpecContext == Init /\ [][NextContext]_vars

\* -------------------------------------------------------- assembler claims
ctxReturned == ctxPc = "returned"
included == ctxOut.contextChunks
ranked == ctxOut.searchResults
costOf(chunkId) == estimateTokens(ctxIn.chunks[chunkId].text)
RECURSIVE sumCost(_, _)
sumCost(list, n) == IF n = 0 THEN 0 ELSE sumCost(list, n - 1) + costOf(list[n].chunkId)
contributing == {included[k].docId : k \in 1..Len(included)}

\* C21: tokensUsed equals the sum of the estimated token costs of the chunks
\* included in the context and never exceeds maxContextTokens.
C21_TokensUsedWithinBudget ==
    ctxReturned =>
        /\ ctxOut.tokensUsed = sumCost(included, Len(included))
        /\ ctxOut.tokensUsed <= ctxIn.maxContextTokens

\* a call that stopped on the budget after including two chunks
C21_Witness ==
    /\ ctxReturned
    /\ ctxOut.chunksUsed = 2 /\ ctxIn.topK > 2 /\ Len(ranked) > 2
    /\ ctxOut.tokensUsed + costOf(ranked[3].chunkId) > ctxIn.maxContextTokens

\* C22: sources has exactly one entry per distinct document that contributed
\* an included chunk, each entry's relevance is the maximum score among that
\* document's included chunks, and the entries are in non-increasing
\* relevance order.
C22_SourcesPerDocument ==
    ctxReturned =>
        LET sources == ctxOut.sources
        IN /\ Len(sources) = Cardinality(contributing)
           /\ \A d \in contributing : \E k \in 1..Len(sources) : sources[k].id = d
           /\ \A k \in 1..Len(sources) :
                  /\ sources[k].id \in contributing
                  /\ \E c \in 1..Len(included) :
                         included[c].docId = sources[k].id /\ included[c].score = sources[k].relevance
                  /\ \A c \in 1..Len(included) :
                         included[c].docId = sources[k].id => included[c].score <= sources[k].relevance
           /\ \A k \in 1..(Len(sources) - 1) : sources[k].relevance >= sources[k + 1].relevance

\* two contributing documents, one of them with two chunks of different scores
C22_Witness ==
    /\ ctxReturned
    /\ Len(ctxOut.sources) = 2
    /\ \E a, b \in 1..Len(included) :
           included[a].docId = included[b].docId /\ included[a].score # included[b].score

\* C23: the included chunks are a prefix of the ranked search results;
\* inclusion stops at the first result whose cost would push the running total
\* above maxContextTokens or as soon as topK chunks are included, so
\* chunksUsed <= topK.
C23_PrefixUpToTopK ==
    ctxReturned =>
        /\ Len(included) <= Len(ranked)
        /\ \A k \in 1..Len(included) : included[k].chunkId = ranked[k].chunkId
        /\ ctxOut.chunksUsed = Len(included)
        /\ ctxOut.chunksUsed <= ctxIn.topK
        /\ Len(included) < Len(ranked) =>
               \/ Len(included) = ctxIn.topK
               \/ ctxOut.tokensUsed + costOf(ranked[Len(included) + 1].chunkId)
                      > ctxIn.maxContextTokens

\* C29: when no stored vector reaches the similarity threshold (or the index
\* is empty), search returns an empty result list without raising an error in
\* both ranking modes, and retrieveContext returns empty contextText, no
\* sources, tokensUsed 0 and chunksUsed 0.
nothingReaches ==
    \A j \in 1..Len(ctxIn.allVectors) :
        /\ Len(ctxIn.allVectors[j].vector) = Len(ctxIn.query)
        /\ cosineSimilarity(ctxIn.query, ctxIn.allVectors[j].vector) < ctxIn.threshold
C29_NothingRelevantEmptyContext ==
    (ctxPc # "idle" /\ nothingReaches) =>
        /\ ctxReturned
        /\ ranked = << >>
        /\ ctxOut.contextText = << >>
        /\ ctxOut.sources = << >>
        /\ ctxOut.tokensUsed = 0
        /\ ctxOut.chunksUsed = 0

\* an MMR search over two stored vectors, none of which reaches the threshold
C29_Witness ==
    /\ ctxReturned /\ nothingReaches
    /\ Len(ctxIn.allVectors) >= 2 /\ ctxIn.useMMR
    /\ ctxIn.topK >= 1 /\ ctxIn.maxContextTokens >= 1

\* C30: in the formatted context every included chunk appears exactly once,
\* all chunks of one document are contiguous in one group, and within a group
\* chunks are in increasing position order regardless of their scores or of
\* their order in the ranked results.
chunkPieces == LET isChunk(piece) == piece.kind = "chunk" IN SelectSeq(ctxOut.contextText, isChunk)
C30_GroupedByDocumentInPositionOrder ==
    ctxReturned =>
        /\ \A c \in 1..Len(included) :
               Cardinality({x \in 1..Len(chunkPieces) :
                               chunkPieces[x].chunkId = included[c].chunkId}) = 1
        /\ Len(chunkPieces) = Len(included)
        /\ \A x \in 1..Len(chunkPieces) :
               chunkPieces[x].text = ctxIn.chunks[chunkPieces[x].chunkId].text
        /\ \A x, z \in 1..Len(ctxOut.contextText) :
               LET text == ctxOut.contextText
               IN (x < z /\ text[x].kind = "chunk" /\ text[z].kind = "chunk"
                         /\ text[x].docId = text[z].docId) =>
                      /\ text[x].position < text[z].position
                      /\ \A y \in (x + 1)..(z - 1) :
                             text[y].kind = "chunk" /\ text[y].docId = text[x].docId

\* three included chunks: a later chunk of a document, a chunk of another
\* document, then an earlier chunk of the first document
C30_Witness ==
    /\ ctxReturned /\ Len(included) = 3
    /\ included[1].docId = included[3].docId /\ included[1].docId # included[2].docId
    /\ included[1].position > included[3].position

\* ------------------------------------------------- chunk indices (chunker)
\* C36: for every emitted chunk, startIndex and endIndex are word indices into
\* the whitespace-split input with 0 <= startIndex < endIndex <= word count,
\* the chunk text is exactly the words startIndex..endIndex-1 joined by single
\* spaces, and consecutive chunks satisfy startIndex(next) <= endIndex(previous).
C36_ChunkIndicesNameItsWords ==
    chunkReturned =>
        /\ \A j \in 1..Len(chunkOut) :
               /\ 0 <= chunkOut[j].startIndex
               /\ chunkOut[j].startIndex < chunkOut[j].endIndex
               /\ chunkOut[j].endIndex <= Len(chunkWords)
               /\ chunkOut[j].text
                      = join(SubSeq(chunkWords, chunkOut[j].startIndex + 1, chunkOut[j].endIndex))
        /\ \A j \in 1..(Len(chunkOut) - 1) :
               chunkOut[j + 1].startIndex <= chunkOut[j].endIndex

\* a third chunk seeded with a proper, non-empty suffix of a second chunk whose
\* words differ
C36_Witness ==
    /\ chunkReturned /\ Len(chunkOut) >= 3
    /\ chunkOut[3].startIndex < chunkOut[2].endIndex
    /\ chunkOut[3].startIndex > chunkOut[2].startIndex
    /\ chunkOut[2].words[1] # chunkOut[2].words[Len(chunkOut[2].words)]

\* ------------------------------------------------ metadata counters (index)
\* C32: after any sequence of completed addDocument, deleteDocument (also of
\* a docId that was already deleted), clear and compact operations, the
\* metadata counters totalDocuments and totalChunks equal the numbers of
\* document and chunk records in the store and are never negative.
C32_CountersMatchStore ==
    (writer.pc \in {"idle", "returned"} /\ failures = 0) =>
        /\ config.totalDocuments = Cardinality(documents)
        /\ config.totalChunks = Cardinality(DOMAIN chunks)
        /\ config.totalDocuments >= 0
        /\ config.totalChunks >= 0

\* --------------------------------------- search during a delete (index)
\* C35: a search that interleaves with deleteDocument or compact never fails
\* with an error caused by a missing chunk or document record and never
\* returns a result whose chunk or document is missing.
C35_SearchSurvivesConcurrentDelete ==
    failures = 0 =>
        /\ search.pc = "threw" => search.error # "chunk"
        /\ search.pc = "returned" =>
               \A k \in 1..Len(search.results) : search.results[k].docPresent

\* ----------------------------------------- sessions in each other's way
\* the timer of session s expires in this step
timerExpires(s) == timer[s] = "pending" /\ timer'[s] = "fired"
\* the model call of session s returns or throws in this step (its cleanup runs)
cleanupRuns(s) == pc[s] = "running" /\ pc'[s] \in {"resolved", "rejected"}

\* C33: a session's timeout timer acts only on its own session: when session
\* s was stopped and a session t has started before the model call of s
\* returned, the expiry of the timer of s neither stops t nor invokes an error
\* callback while t is Generating, and the completion cleanup of s does not
\* reset the generating flag or the cancellation token of t.
C33_TimerAndCleanupOwnSessionOnly ==
    [][\A s, t \in Sessions :
          (s # t /\ pc[s] = "running" /\ ~sessionGenerating[s]
                 /\ pc[t] = "running" /\ sessionGenerating[t]) =>
              /\ timerExpires(s) =>
                     /\ sessionGenerating'[t] /\ isGenerating'
                     /\ aborted'[t] = aborted[t]
                     /\ nError' = nError
              /\ cleanupRuns(s) =>
                     /\ isGenerating' = isGenerating
                     /\ abortController' = abortController]_vars

\* ------------------------------------------------ the non-streaming generate
\* ChatEngine.generate wraps one generateStream call without a signal in a
\* promise that onDone resolves and onError rejects; the rejection of the
\* generateStream call itself is not observed.
promiseSettled(s) == nDone[s] + nError[s] > 0

\* a model call that has started ends, and a settled call is let go of
SpecLive ==
    /\ Spec
    /\ \A s \in Sessions :
           /\ WF_vars(ModelReturn(s) \/ ModelThrow(s, FALSE))
           /\ WF_vars(Forget(s))

\* C34: every call of generate(messages, params) eventually settles: its
\* promise resolves or rejects on every outcome of the underlying
\* generateStream, also when generateStream rejects before any callback is
\* invoked (controller busy, or generation pipeline not loaded).
C34_GenerateSettles ==
    \A s \in Sessions :
        (pc[s] \in {"running", "busy", "noPipeline", "setupThrew"} /\ ~external[s])
            ~> promiseSettled(s)

\* ================================================================ chat view
\* ChatUI.sendMessage up to the call of chatEngine.generateStream, and the end
\* of that call.  A message is [role, content]; msg names the sendMessage call
\* whose user message it is (0 for every other message).
Contents == {"q1", "q2"}
Message(role, content, msg) == [role |-> role, content |-> content, msg |-> msg]

\* ChatUI.getConversationHistory: the session's messages, a system message
\* put in front unless the first one is a system message
getConversationHistory(store) ==
    IF Len(store) = 0 \/ store[1].role # "system"
    THEN << Message("system", "default", 0) >> \o store
    ELSE store

\* RAGPipeline.buildPromptWithContext
buildPromptWithContext(userQuery, msg) ==
    << Message("system", "context", 0), Message("user", userQuery, msg) >>

\* the RAG branch of sendMessage when context was found
withContext(ragMessages, history) ==
    IF Len(history) > 1
    THEN << ragMessages[1] >> \o SubSeq(history, 1, Len(history) - 1) \o << ragMessages[2] >>
    ELSE ragMessages

\* "Prepare messages" and "Apply RAG if enabled"; found: processQuery returned
\* a context and at least one source
prepareMessages(store, content, msg, shouldUseRAG, found) ==
    LET history == getConversationHistory(store)
    IN IF shouldUseRAG /\ found
       THEN withContext(buildPromptWithContext(content, msg), history)
       ELSE Append(history, Message("user", content, msg))

\* sendMessage(content, useRAG) up to the await of generateStream
SendMessage(content, shouldUseRAG, found) ==
    /\ ~uiIsGenerating
    /\ sent < MaxTurns
    /\ sent' = sent + 1
    /\ chatStore' = Append(chatStore, Message("user", content, sent + 1))
    /\ uiIsGenerating' = TRUE
    /\ messages' = prepareMessages(chatStore', content, sent + 1, shouldUseRAG, found)
    /\ UNCHANGED <<chatVars, indexVars, chunkerVars, contextVars, audioVars>>

\* the generateStream call ends: onDone saves the assistant message, an error
\* saves nothing; finally
GenerationEnds(done) ==
    /\ uiIsGenerating
    /\ chatStore' = IF done THEN Append(chatStore, Message("assistant", "reply", 0))
                    ELSE chatStore
    /\ uiIsGenerating' = FALSE
    /\ UNCHANGED <<chatVars, indexVars, chunkerVars, contextVars, audioVars, messages, sent>>

NextUI ==
    \/ \E content \in Contents : \E shouldUseRAG, found \in BOOLEAN :
          SendMessage(content, shouldUseRAG, found)
    \/ \E done \in BOOLEAN : GenerationEnds(done)

SpecUI == Init /\ [][NextUI]_vars

\* C37: the message list handed to generateStream contains the current user
\* message exactly once, as its last element, on all three paths (RAG
\* disabled, RAG enabled with context found, RAG enabled with no relevant
\* context).
C37_CurrentMessageOnceAndLast ==
    uiIsGenerating =>
        /\ Cardinality({k \in 1..Len(messages) :
                           messages[k].role = "user" /\ messages[k].msg = sent}) = 1
        /\ messages[Len(messages)].role = "user"
        /\ messages[Len(messages)].msg = sent

\* ============================================================= audio player
\* AudioPlayer, fed by TTSUI.startTTS.  A chunk is named by the order in which
\* it was given to the player; every chunk has a positive duration.  A buffer
\* source is [chunk, resumed, state, pending]: state is "playing", "ended" (it
\* played to its end), "paused" (stopped by pause), "stopped" (stopped by
\* stop) or "cut" (stopped by the start of another chunk); pending: its ended
\* event, with the handler still set, waits to be dispatched.
Source(chunk, resumed) ==
    [chunk |-> chunk, resumed |-> resumed, state |-> "playing", pending |-> FALSE]

\* currentSource.stop(): a playing source stops and its ended event is queued
\* (handled: pause removed the handler before)
stopSource(p, how, handled) ==
    IF p.currentSource # 0 /\ p.sources[p.currentSource].state = "playing"
    THEN [p EXCEPT !.sources[p.currentSource] =
                       [@ EXCEPT !.state = how, !.pending = handled]]
    ELSE p

\* this.onEndCallback()
onEndCallback(p) == [p EXCEPT !.onEndCalls = (@ + 1) % 2]

\* AudioPlayer.playNext up to the decode of the chunk it took
playNext(p) ==
    IF Len(p.audioQueue) = 0
    THEN [p EXCEPT !.isPlaying = FALSE]
    ELSE [p EXCEPT !.audioQueue = Tail(@),
                   !.decoding = @ \cup {[chunk |-> Head(p.audioQueue),
                                         chunked |-> p.totalDuration > 0]}]

\* createBufferSource ... start(0); isPlaying = true; isPaused = false
startSource(p, chunk, resumed) ==
    [p EXCEPT !.sources = Append(@, Source(chunk, resumed)),
              !.currentSource = Len(p.sources) + 1,
              !.isPlaying = TRUE,
              !.isPaused = FALSE]

\* AudioPlayer.stop
playerStop(p, how) ==
    onEndCallback([stopSource(p, how, TRUE) EXCEPT
                       !.currentSource = 0, !.isPlaying = FALSE, !.isPaused = FALSE,
                       !.isStreaming = FALSE, !.audioQueue = << >>,
                       !.currentBuffer = 0, !.totalDuration = 0])

\* AudioPlayer.playNextChunk after its decode
playNextChunk(p, chunk) ==
    LET q == [p EXCEPT !.currentBuffer = chunk]
        r == IF q.currentSource # 0
             THEN [stopSource(q, "cut", TRUE) EXCEPT !.currentSource = 0]
             ELSE q
    IN startSource(r, chunk, FALSE)

\* AudioPlayer.playAudioData after its decode, and playBuffer
playBuffer(p, chunk) ==
    LET q == [p EXCEPT !.currentBuffer = chunk]
        r == IF q.currentSource # 0 THEN playerStop(q, "cut") ELSE q
    IN startSource(r, chunk, FALSE)

\* AudioPlayer.handlePlaybackEnd
handlePlaybackEnd(p) ==
    LET q == [p EXCEPT !.isPlaying = FALSE]
    IN IF Len(q.audioQueue) > 0
       THEN playNext(q)
       ELSE onEndCallback([q EXCEPT !.totalDuration = 0])

\* the push of a chunk and the test that starts the first one
pushChunk(p, chunk) ==
    LET q == [p EXCEPT !.audioQueue = Append(@, chunk)]
    IN IF ~q.isPlaying /\ Len(q.audioQueue) = 1 THEN playNext(q) ELSE q

\* player.onEnd(() => { ... this.activePlayers.delete(messageId) ... })
onEndSeen(p) == p.onEndCalls # player.onEndCalls

\* one step of the player; what is common to every action on it
PlayerStep(p) ==
    /\ player' = p
    /\ activePlayers' = (activePlayers /\ ~onEndSeen(p))
    /\ UNCHANGED <<chatVars, indexVars, chunkerVars, contextVars, uiVars>>

\* startTTS with a streaming result: initializeStreamingPlayback up to the
\* first await of the generator
StartStreaming ==
    /\ feed.pc = "none"
    /\ feed' = [feed EXCEPT !.pc = "waiting"]
    /\ player' = [player EXCEPT !.totalDuration = 0, !.isStreaming = TRUE]
    /\ activePlayers' = TRUE
    /\ UNCHANGED <<chatVars, indexVars, chunkerVars, contextVars, uiVars>>

\* startTTS with several chunks: initializeChunkedPlayback
StartChunked(n) ==
    /\ feed.pc = "none"
    /\ feed' = [pc |-> "chunked", awaiting |-> 1, produced |-> n]
    /\ player' = playNext([player EXCEPT !.totalDuration = n,
                                         !.audioQueue = [k \in 1..n |-> k]])
    /\ activePlayers' = TRUE
    /\ UNCHANGED <<chatVars, indexVars, chunkerVars, contextVars, uiVars>>

\* the generator yields a chunk: one turn of the for await loop
GeneratorYields ==
    /\ feed.pc = "waiting"
    /\ feed.produced < MaxAudioChunks
    /\ LET chunk == feed.produced + 1
           q == [player EXCEPT !.totalDuration = @ + 1,
                               !.audioQueue = Append(@, chunk)]
           starts == ~q.isPlaying /\ Len(q.audioQueue) = 1
       IN /\ feed' = [pc |-> IF starts THEN "playNext" ELSE "waiting",
                      awaiting |-> IF starts THEN chunk ELSE 0,
                      produced |-> chunk]
          /\ PlayerStep(IF starts THEN playNext(q) ELSE q)

\* the generator is exhausted: finally
GeneratorDone ==
    /\ feed.pc = "waiting"
    /\ feed' = [feed EXCEPT !.pc = "done"]
    /\ PlayerStep([player EXCEPT !.isStreaming = FALSE])

\* AudioPlayer.addToQueue(audioData)
AddToQueue ==
    /\ feed.pc # "none"
    /\ feed.produced < MaxAudioChunks
    /\ feed' = [feed EXCEPT !.produced = @ + 1]
    /\ PlayerStep(pushChunk(player, feed.produced + 1))

\* a decode ends: the rest of playNextChunk or of playAudioData; the loop
\* awaiting this playNext goes on
DecodeDone(d) ==
    /\ d \in player.decoding
    /\ feed' = IF feed.pc = "playNext" /\ feed.awaiting = d.chunk
               THEN [feed EXCEPT !.pc = "waiting", !.awaiting = 0]
               ELSE feed
    /\ LET p == [player EXCEPT !.decoding = @ \ {d}]
       IN PlayerStep(IF d.chunked THEN playNextChunk(p, d.chunk)
                                  ELSE playBuffer(p, d.chunk))

\* a source plays to its end: currentSource.onended
SourceEnds(i) ==
    /\ i \in 1..Len(player.sources)
    /\ player.sources[i].state = "playing"
    /\ PlayerStep(handlePlaybackEnd([player EXCEPT !.sources[i].state = "ended"]))
    /\ UNCHANGED feed

\* the ended event of a stopped source is dispatched
StoppedSourceEnds(i) ==
    /\ i \in 1..Len(player.sources)
    /\ player.sources[i].pending
    /\ PlayerStep(handlePlaybackEnd([player EXCEPT !.sources[i].pending = FALSE]))
    /\ UNCHANGED feed

\* AudioPlayer.pause
Pause ==
    /\ player.isPlaying /\ ~player.isPaused
    /\ PlayerStep([stopSource(player, "paused", FALSE) EXCEPT
                       !.isPaused = TRUE, !.isPlaying = FALSE])
    /\ UNCHANGED feed

\* AudioPlayer.resume
Resume ==
    /\ player.isPaused /\ player.currentBuffer # 0
    /\ Len(player.sources) < MaxSources
    /\ PlayerStep(startSource(player, player.currentBuffer, TRUE))
    /\ UNCHANGED feed

\* AudioPlayer.stop, called by stopAllOtherPlayers
PlayerStop ==
    /\ activePlayers
    /\ PlayerStep(playerStop(player, "stopped"))
    /\ UNCHANGED feed

NextAudio ==
    \/ StartStreaming
    \/ \E n \in 2..MaxAudioChunks : StartChunked(n)
    \/ GeneratorYields
    \/ GeneratorDone
    \/ AddToQueue
    \/ \E d \in player.decoding : DecodeDone(d)
    \/ \E i \in 1..Len(player.sources) : SourceEnds(i)
    \/ \E i \in 1..Len(player.sources) : StoppedSourceEnds(i)
    \/ Pause
    \/ Resume
    \/ PlayerStop

SpecAudio == Init /\ [][NextAudio]_vars

\* the source created by this step, if any
startedSource == player'.sources[Len(player'.sources)]
sourceStarts == Len(player'.sources) > Len(player.sources)

\* C31: after pause() and until resume() or stop(), the player starts no
\* audio chunk, also when the streaming generator delivers a chunk or
\* addToQueue is called while paused; resume() continues the paused chunk.
C31_PausedStartsNothing ==
    [][(player.isPaused /\ sourceStarts) =>
           /\ startedSource.resumed
           /\ player.currentSource # 0
           /\ startedSource.chunk = player.sources[player.currentSource].chunk]_vars

\* C38: every queued chunk is started once, in FIFO order, at most one
\* playNext is in progress at a time, and no start of a chunk cuts off
\* another chunk that is still playing.
C38_OneChunkAtATimeInOrder ==
    /\ Cardinality(player.decoding) <= 1
    /\ \A i \in 1..Len(player.sources) : player.sources[i].state # "cut"
    /\ Cardinality({i \in 1..Len(player.sources) :
                       player.sources[i].state = "playing"}) <= 1
    /\ \A i, j \in 1..Len(player.sources) :
          (i < j /\ ~player.sources[i].resumed /\ ~player.sources[j].resumed)
              => player.sources[i].chunk < player.sources[j].chunk

\* C39: onEnd fires only when playback is over: never while the streaming
\* generator is still producing chunks (isStreaming true).
C39_OnEndOnlyWhenOver ==
    [][player'.onEndCalls # player.onEndCalls => ~player'.isStreaming]_vars
====
